---- MODULE Spec2Model ----
(***************************************************************************)
(* Verification model of the streaming indicators of ta-rs-improved:       *)
(*   - AdaptiveTimeDetector        (src/indicators/adaptive.rs)            *)
(*   - the window indicators       (simple_moving_average.rs, ...)         *)
(*   - ExponentialMovingAverage    (exponential_moving_average.rs)         *)
(*                                                                         *)
(* Time.  A DateTime<Utc> is an integer number of ticks since the Unix     *)
(* epoch (negative before it); a second has TicksPerSec ticks, so that     *)
(* sub-second instants exist.  A std::time::Duration is a natural number   *)
(* of ticks, a chrono::Duration an integer number of ticks.                *)
(*                                                                         *)
(* Numbers.  f64 values are modelled in exact arithmetic: a value is a     *)
(* rational <<n, d>> in lowest terms with d > 0.                           *)
(***************************************************************************)
EXTENDS Integers, Sequences, FiniteSets, TLC

\* ------------------------------------------------------------------------
\* Bounds of the model
\* ------------------------------------------------------------------------
TicksPerSec == 2
MaxDetCalls == 4
MaxWinCalls == 3
MaxEmaCalls == 4
MaxRsiCalls == 3

\* The last minute of a minute-by-minute replay
MaxReplayMinutes == 409

\* ------------------------------------------------------------------------
\* Program constants
\* ------------------------------------------------------------------------
\* adaptive.rs:46   Duration::from_secs(5 * 60)
SecondModeLimitSecs == 300
\* adaptive.rs:49   Duration::from_secs(86400)
MinuteModeLimitSecs == 86400
\* adaptive.rs:100  chrono::Duration::seconds(3 * 3600 + 24 * 60)
MinGapSecs == 12240
\* adaptive.rs:59   i64::MIN, the "no bucket yet" value of last_minute_bucket.
\* Every bucket key of the model is far from it, as every key of a
\* representable DateTime is far from the real i64::MIN.
I64_MIN == -2147483647

\* The limits of chrono, scaled down as I64_MIN is: the longest
\* chrono::Duration (i64::MAX milliseconds) and the earliest DateTime<Utc>
\* (the start of the year -262143), in seconds: a hundred days and ten days
\* before the epoch.  As with the real limits,
\* every timestamp of the model is far from the second, and the first is
\* longer than the time from the earliest DateTime to any timestamp.
\* simple_moving_average.rs:45  chrono::Duration::from_std(self.duration)
ChronoDurationMaxSecs == 8640000
\* simple_moving_average.rs:49  current_time - chrono_duration
DateTimeMinSecs == -864000

Secs(n) == n * TicksPerSec

\* ------------------------------------------------------------------------
\* Conversions
\* ------------------------------------------------------------------------
\* Rust integer division: truncates toward zero (b > 0)
TruncDiv(a, b) == IF a >= 0 THEN a \div b ELSE -((-a) \div b)

\* std::time::Duration::as_secs: whole seconds of a non-negative duration
AsSecs(d) == d \div TicksPerSec

\* DateTime::timestamp(): whole seconds since the epoch, rounded down
\* (the sub-second part of a DateTime is never negative)
Timestamp(ts) == ts \div TicksPerSec

\* chrono::Duration::num_seconds(): whole seconds, truncated toward zero
NumSeconds(d) == TruncDiv(d, TicksPerSec)

\* Option<T>
None == << >>
Some(x) == << x >>

\* ------------------------------------------------------------------------
\* AdaptiveTimeDetector
\* ------------------------------------------------------------------------
Intraday(bucket) == [kind |-> "Intraday", bucket |-> bucket]
DailyOHLC == [kind |-> "DailyOHLC", bucket |-> 0]

\* DetNew with the limits taken inclusively (<= for <)
DetNew_InclusiveLimits(duration) ==
    [ frequency |->
        IF duration <= Secs(SecondModeLimitSecs) THEN Intraday(Secs(1))
        ELSE IF duration <= Secs(MinuteModeLimitSecs) THEN Intraday(Secs(60))
        ELSE DailyOHLC,
      last_minute_bucket |-> I64_MIN,
      last_timestamp |-> None ]

\* AdaptiveTimeDetector::new
DetNew(duration) ==
    [ frequency |->
        IF duration < Secs(SecondModeLimitSecs) THEN Intraday(Secs(1))
        ELSE IF duration < Secs(MinuteModeLimitSecs) THEN Intraday(Secs(60))
        ELSE DailyOHLC,
      last_minute_bucket |-> I64_MIN,
      last_timestamp |-> None ]

\* CurrentBucket from the time with its fraction of a second, not from the
\* whole seconds
CurrentBucket_Fraction(bucket_duration, timestamp) ==
    TruncDiv(timestamp, AsSecs(bucket_duration))

\* The bucket key computed by should_replace in Intraday mode
CurrentBucket(bucket_duration, timestamp) ==
    TruncDiv(Timestamp(timestamp), AsSecs(bucket_duration))

\* WithinGap on the whole seconds of the difference
WithinGap_WholeSeconds(last_ts, timestamp) ==
    LET time_diff == timestamp - last_ts
    IN  NumSeconds(time_diff) > 0 /\ time_diff < Secs(MinGapSecs)

\* WithinGap with the end of the gap included (<= for <)
WithinGap_Inclusive(last_ts, timestamp) ==
    LET time_diff == timestamp - last_ts
    IN  time_diff > 0 /\ time_diff <= Secs(MinGapSecs)

\* The gap test of should_replace in DailyOHLC mode
WithinGap(last_ts, timestamp) ==
    LET time_diff == timestamp - last_ts
    IN  time_diff > 0 /\ time_diff < Secs(MinGapSecs)

\* DetShouldReplace that moves last_timestamp on a replacing call too
DetShouldReplace_SlidingGap(d, timestamp) ==
    IF d.frequency.kind = "Intraday"
    THEN LET current_bucket == CurrentBucket(d.frequency.bucket, timestamp)
         IN  [ det |-> [d EXCEPT !.last_minute_bucket = current_bucket],
               ret |-> (current_bucket = d.last_minute_bucket) ]
    ELSE [ det |-> [d EXCEPT !.last_timestamp = Some(timestamp)],
           ret |-> d.last_timestamp # None
                     /\ WithinGap(d.last_timestamp[1], timestamp) ]

\* AdaptiveTimeDetector::should_replace: the detector after the call and
\* the value returned
DetShouldReplace(d, timestamp) ==
    IF d.frequency.kind = "Intraday"
    THEN LET current_bucket == CurrentBucket(d.frequency.bucket, timestamp)
         IN  [ det |-> [d EXCEPT !.last_minute_bucket = current_bucket],
               ret |-> (current_bucket = d.last_minute_bucket) ]
    ELSE IF d.last_timestamp # None /\ WithinGap(d.last_timestamp[1], timestamp)
         THEN [ det |-> d, ret |-> TRUE ]
         ELSE [ det |-> [d EXCEPT !.last_timestamp = Some(timestamp)],
                ret |-> FALSE ]

\* DetReset that leaves the bucket key as it is
DetReset_KeepBucket(d) ==
    [d EXCEPT !.last_timestamp = None]

\* AdaptiveTimeDetector::reset
DetReset(d) ==
    [d EXCEPT !.last_minute_bucket = I64_MIN, !.last_timestamp = None]

\* AdaptiveTimeDetector::is_detected
IsDetected(d) == d.frequency.kind # "Unknown"

\* ------------------------------------------------------------------------
\* f64 arithmetic, exact: <<n, d>> with d > 0 in lowest terms; <<1, 0>> is
\* +inf, <<-1, 0>> is -inf and <<0, 0>> is NaN
\* ------------------------------------------------------------------------
Abs(n) == IF n < 0 THEN -n ELSE n
Sign(n) == IF n < 0 THEN -1 ELSE IF n > 0 THEN 1 ELSE 0

RECURSIVE Gcd(_, _)
Gcd(a, b) == IF b = 0 THEN a ELSE Gcd(b, a % b)

\* n / d as a value, d any integer
Ratio(n, d) ==
    IF d = 0 THEN << Sign(n), 0 >>
    ELSE LET g == Gcd(Abs(n), Abs(d))
         IN  << Sign(d) * (n \div g), Abs(d) \div g >>

F(n) == << n, 1 >>
F64_INFINITY == << 1, 0 >>
F64_NEG_INFINITY == << -1, 0 >>
F64_NAN == << 0, 0 >>
IsNaN(a) == a = F64_NAN
IsFinite(a) == a[2] # 0

FAdd(a, b) ==
    IF IsFinite(a) /\ IsFinite(b) THEN Ratio(a[1] * b[2] + b[1] * a[2], a[2] * b[2])
    ELSE IF IsNaN(a) \/ IsNaN(b) THEN F64_NAN
    ELSE IF IsFinite(a) THEN b
    ELSE IF IsFinite(b) \/ a = b THEN a
    ELSE F64_NAN
FNeg(a) == << -a[1], a[2] >>
FSub(a, b) == FAdd(a, FNeg(b))
FMul(a, b) ==
    IF IsFinite(a) /\ IsFinite(b) THEN Ratio(a[1] * b[1], a[2] * b[2])
    ELSE IF IsNaN(a) \/ IsNaN(b) \/ a[1] = 0 \/ b[1] = 0 THEN F64_NAN
    ELSE << Sign(a[1]) * Sign(b[1]), 0 >>
FDiv(a, b) ==
    IF IsNaN(a) \/ IsNaN(b) THEN F64_NAN
    ELSE IF IsFinite(a) /\ IsFinite(b) THEN Ratio(a[1] * b[2], a[2] * b[1])
    ELSE IF IsFinite(a) THEN F(0)
    ELSE IF IsFinite(b) THEN << a[1] * (IF b[1] < 0 THEN -1 ELSE 1), 0 >>
    ELSE F64_NAN
\* comparisons are false when an operand is NaN
FLt(a, b) == ~IsNaN(a) /\ ~IsNaN(b) /\ a # b /\ a[1] * b[2] < b[1] * a[2]
FGt(a, b) == FLt(b, a)
FLe(a, b) == ~IsNaN(a) /\ ~IsNaN(b) /\ (a = b \/ FLt(a, b))
\* f64::min and f64::max: the other operand when one is NaN
FMin(a, b) == IF IsNaN(a) THEN b ELSE IF IsNaN(b) THEN a ELSE IF FLt(b, a) THEN b ELSE a
FMax(a, b) == IF IsNaN(a) THEN b ELSE IF IsNaN(b) THEN a ELSE IF FLt(a, b) THEN b ELSE a

\* ------------------------------------------------------------------------
\* The window of an indicator: VecDeque<(DateTime<Utc>, f64)>, a sequence of
\* << time, value >>
\* ------------------------------------------------------------------------
Time(e) == e[1]
Value(e) == e[2]
Back(w) == w[Len(w)]
PopBack(w) == SubSeq(w, 1, Len(w) - 1)
PopFront(w) == Tail(w)
\* PushBack that drops a sample older than the last entry
PushBack_IfNewer(w, e) ==
    IF w # << >> /\ Time(e) < Time(Back(w)) THEN w ELSE Append(w, e)

\* PushBack at the front of the window
PushBack_Front(w, e) == << e >> \o w
PushBack(w, e) == Append(w, e)

\* the loop conditions of the remove_old_data functions
StaleInclusive(time, current_time, duration) == time <= current_time - duration
StaleStrict(time, current_time, duration) == time < current_time - duration

\* ------------------------------------------------------------------------
\* SimpleMovingAverage
\* ------------------------------------------------------------------------
SmaNew(duration) ==
    [ kind |-> "SMA", duration |-> duration, window |-> << >>, sum |-> F(0),
      detector |-> DetNew(duration) ]

\* SmaStale with the strict boundary of MaxDrawdown (< for <=)
SmaStale_Strict(time, current_time, duration) ==
    StaleStrict(time, current_time, duration)

SmaStale(time, current_time, duration) ==
    StaleInclusive(time, current_time, duration)

RECURSIVE SmaRemoveOldData(_, _)
SmaRemoveOldData(s, current_time) ==
    IF s.window # << >> /\ SmaStale(Time(s.window[1]), current_time, s.duration)
    THEN SmaRemoveOldData([s EXCEPT !.window = PopFront(@),
                                    !.sum = FSub(@, Value(s.window[1]))],
                          current_time)
    ELSE s

\* SmaReplaceLast that never takes the last entry out
SmaReplaceLast_Never(s, should_replace) == s

\* SmaReplaceLast that pops the last entry without taking it out of the sum
SmaReplaceLast_KeepSum(s, should_replace) ==
    IF should_replace /\ s.window # << >>
    THEN [s EXCEPT !.window = PopBack(@)]
    ELSE s

\* the replace step of SimpleMovingAverage::next
SmaReplaceLast(s, should_replace) ==
    IF should_replace /\ s.window # << >>
    THEN [s EXCEPT !.window = PopBack(@), !.sum = FSub(@, Value(Back(s.window)))]
    ELSE s

\* SimpleMovingAverage::next: the indicator after the call, the value
\* returned, and what should_replace returned
SmaNext(s, timestamp, value) ==
    LET r  == DetShouldReplace(s.detector, timestamp)
        s1 == SmaRemoveOldData([s EXCEPT !.detector = r.det], timestamp)
        s2 == SmaReplaceLast(s1, r.ret)
        s3 == [s2 EXCEPT !.window = PushBack(@, << timestamp, value >>),
                         !.sum = FAdd(@, value)]
    IN  [ st |-> s3, rep |-> r.ret,
          out |-> IF s3.window = << >> THEN F(0)
                  ELSE FDiv(s3.sum, F(Len(s3.window))) ]

\* SmaReset that leaves the sum as it is
SmaReset_KeepSum(s) ==
    [s EXCEPT !.window = << >>, !.detector = DetReset(@)]

SmaReset(s) ==
    [s EXCEPT !.window = << >>, !.sum = F(0), !.detector = DetReset(@)]

\* ------------------------------------------------------------------------
\* StandardDeviation; the value returned is sqrt(variance), given as
\* [sqrt |-> variance]
\* ------------------------------------------------------------------------
SdNew(duration) ==
    [ kind |-> "SD", duration |-> duration, window |-> << >>, sum |-> F(0),
      sum_sq |-> F(0), detector |-> DetNew(duration) ]

\* SdRemoveOldData that leaves sum_sq as it is
RECURSIVE SdRemoveOldData_KeepSumSq(_, _)
SdRemoveOldData_KeepSumSq(s, current_time) ==
    IF s.window # << >> /\ StaleInclusive(Time(s.window[1]), current_time, s.duration)
    THEN LET old_value == Value(s.window[1])
         IN  SdRemoveOldData_KeepSumSq([s EXCEPT !.window = PopFront(@),
                                                 !.sum = FSub(@, old_value)],
                                       current_time)
    ELSE s

RECURSIVE SdRemoveOldData(_, _)
SdRemoveOldData(s, current_time) ==
    IF s.window # << >> /\ StaleInclusive(Time(s.window[1]), current_time, s.duration)
    THEN LET old_value == Value(s.window[1])
         IN  SdRemoveOldData([s EXCEPT !.window = PopFront(@),
                                       !.sum = FSub(@, old_value),
                                       !.sum_sq = FSub(@, FMul(old_value, old_value))],
                             current_time)
    ELSE s

SdNext(s, timestamp, value) ==
    LET r  == DetShouldReplace(s.detector, timestamp)
        s1 == SdRemoveOldData([s EXCEPT !.detector = r.det], timestamp)
        s2 == IF r.ret /\ s1.window # << >>
              THEN LET old_value == Value(Back(s1.window))
                   IN  [s1 EXCEPT !.window = PopBack(@),
                                  !.sum = FSub(@, old_value),
                                  !.sum_sq = FSub(@, FMul(old_value, old_value))]
              ELSE s1
        s3 == [s2 EXCEPT !.window = PushBack(@, << timestamp, value >>),
                         !.sum = FAdd(@, value),
                         !.sum_sq = FAdd(@, FMul(value, value))]
        n  == F(Len(s3.window))
        mean == FDiv(s3.sum, n)
    IN  [ st |-> s3, rep |-> r.ret,
          out |-> IF Len(s3.window) = 0 THEN [sqrt |-> F(0)]
                  ELSE [sqrt |-> FDiv(FSub(s3.sum_sq, FMul(s3.sum, mean)), n)] ]

SdReset(s) ==
    [s EXCEPT !.window = << >>, !.sum = F(0), !.sum_sq = F(0),
              !.detector = DetReset(@)]

\* ------------------------------------------------------------------------
\* Maximum
\* ------------------------------------------------------------------------
MaxNew(duration) ==
    [ kind |-> "MAX", duration |-> duration, window |-> << >>,
      detector |-> DetNew(duration) ]

RECURSIVE FoldMax(_, _)
FoldMax(w, acc) == IF w = << >> THEN acc ELSE FoldMax(Tail(w), FMax(acc, Value(w[1])))

FindMaxValue(s) == FoldMax(s.window, F64_NEG_INFINITY)

RECURSIVE MaxRemoveOldData(_, _)
MaxRemoveOldData(s, current_time) ==
    IF s.window # << >> /\ StaleInclusive(Time(s.window[1]), current_time, s.duration)
    THEN MaxRemoveOldData([s EXCEPT !.window = PopFront(@)], current_time)
    ELSE s

MaxNext(s, timestamp, value) ==
    LET r  == DetShouldReplace(s.detector, timestamp)
        s1 == MaxRemoveOldData([s EXCEPT !.detector = r.det], timestamp)
        s2 == IF r.ret /\ s1.window # << >>
              THEN [s1 EXCEPT !.window = PopBack(@)] ELSE s1
        s3 == [s2 EXCEPT !.window = PushBack(@, << timestamp, value >>)]
    IN  [ st |-> s3, rep |-> r.ret, out |-> FindMaxValue(s3) ]

MaxReset(s) == [s EXCEPT !.window = << >>, !.detector = DetReset(@)]

\* ------------------------------------------------------------------------
\* Minimum.  Minimum::new builds its detector with AdaptiveTimeDetector::new()
\* (minimum.rs:35), without the duration that the constructor of adaptive.rs
\* takes; the detector is the one new(duration) gives.
\* ------------------------------------------------------------------------
MinNew(duration) ==
    [ kind |-> "MIN", duration |-> duration, window |-> << >>,
      min_value |-> F64_INFINITY, detector |-> DetNew(duration) ]

RECURSIVE FoldMin(_, _)
FoldMin(w, acc) == IF w = << >> THEN acc ELSE FoldMin(Tail(w), FMin(acc, Value(w[1])))

\* UpdateMin that never raises the cached minimum
UpdateMin_NeverRaised(s) ==
    [s EXCEPT !.min_value = FMin(@, FoldMin(s.window, F64_INFINITY))]

UpdateMin(s) == [s EXCEPT !.min_value = FoldMin(s.window, F64_INFINITY)]

RECURSIVE MinRemoveOld(_, _)
MinRemoveOld(s, current_time) ==
    IF s.window # << >> /\ StaleStrict(Time(s.window[1]), current_time, s.duration)
    THEN MinRemoveOld([s EXCEPT !.window = PopFront(@)], current_time)
    ELSE s

MinNext(s, timestamp, value) ==
    LET r  == DetShouldReplace(s.detector, timestamp)
        s0 == [s EXCEPT !.detector = r.det]
        s1 == IF r.ret /\ s0.window # << >>
              THEN [s0 EXCEPT !.window = PopBack(@)]
              ELSE MinRemoveOld(s0, timestamp)
        s2 == [s1 EXCEPT !.window = PushBack(@, << timestamp, value >>)]
        s3 == IF FLt(value, s2.min_value)
              THEN [s2 EXCEPT !.min_value = value]
              ELSE UpdateMin(s2)
    IN  [ st |-> s3, rep |-> r.ret, out |-> s3.min_value ]

MinReset(s) ==
    [s EXCEPT !.window = << >>, !.min_value = F64_INFINITY,
              !.detector = DetReset(@)]

\* ------------------------------------------------------------------------
\* MaxDrawdown
\* ------------------------------------------------------------------------
MddNew(duration) ==
    [ kind |-> "MDD", duration |-> duration, window |-> << >>,
      detector |-> DetNew(duration) ]

\* the scan of calculate_max_drawdown from position i on; peak starts at
\* f64::MIN, which is below every value of the model as -inf is
RECURSIVE MddScan(_, _, _, _)
MddScan(w, i, peak, max_drawdown) ==
    IF i > Len(w) THEN max_drawdown
    ELSE LET value == Value(w[i])
             peak1 == IF FGt(value, peak) THEN value ELSE peak
             drawdown == FDiv(FSub(peak1, value), peak1)
         IN  MddScan(w, i + 1, peak1,
                     IF FGt(drawdown, max_drawdown) THEN drawdown ELSE max_drawdown)

CalculateMaxDrawdown(s) ==
    FMul(F(100), MddScan(s.window, 1, F64_NEG_INFINITY, F(0)))

RECURSIVE MddRemoveOldData(_, _)
MddRemoveOldData(s, current_time) ==
    IF s.window # << >> /\ StaleStrict(Time(s.window[1]), current_time, s.duration)
    THEN MddRemoveOldData([s EXCEPT !.window = PopFront(@)], current_time)
    ELSE s

MddNext(s, timestamp, value) ==
    LET r  == DetShouldReplace(s.detector, timestamp)
        s1 == MddRemoveOldData([s EXCEPT !.detector = r.det], timestamp)
        s2 == IF r.ret /\ s1.window # << >>
              THEN [s1 EXCEPT !.window = PopBack(@)] ELSE s1
        s3 == [s2 EXCEPT !.window = PushBack(@, << timestamp, value >>)]
    IN  [ st |-> s3, rep |-> r.ret, out |-> CalculateMaxDrawdown(s3) ]

MddReset(s) == [s EXCEPT !.window = << >>, !.detector = DetReset(@)]

\* ------------------------------------------------------------------------
\* MaxDrawup
\* ------------------------------------------------------------------------
MduNew(duration) ==
    [ kind |-> "MDU", duration |-> duration, window |-> << >>,
      detector |-> DetNew(duration) ]

\* the scan of calculate_max_drawup; trough starts at f64::MAX, which is
\* above every value of the model as +inf is
RECURSIVE MduScan(_, _, _, _)
MduScan(w, i, trough, max_drawup) ==
    IF i > Len(w) THEN max_drawup
    ELSE LET value == Value(w[i])
             trough1 == IF FLt(value, trough) THEN value ELSE trough
             drawup == FDiv(FSub(value, trough1), trough1)
         IN  MduScan(w, i + 1, trough1,
                     IF FGt(drawup, max_drawup) THEN drawup ELSE max_drawup)

CalculateMaxDrawup(s) ==
    FMul(F(100), MduScan(s.window, 1, F64_INFINITY, F(0)))

RECURSIVE MduRemoveOldData(_, _)
MduRemoveOldData(s, current_time) ==
    IF s.window # << >> /\ StaleStrict(Time(s.window[1]), current_time, s.duration)
    THEN MduRemoveOldData([s EXCEPT !.window = PopFront(@)], current_time)
    ELSE s

MduNext(s, timestamp, value) ==
    LET r  == DetShouldReplace(s.detector, timestamp)
        s1 == MduRemoveOldData([s EXCEPT !.detector = r.det], timestamp)
        s2 == IF r.ret /\ s1.window # << >>
              THEN [s1 EXCEPT !.window = PopBack(@)] ELSE s1
        s3 == [s2 EXCEPT !.window = PushBack(@, << timestamp, value >>)]
    IN  [ st |-> s3, rep |-> r.ret, out |-> CalculateMaxDrawup(s3) ]

MduReset(s) == [s EXCEPT !.window = << >>, !.detector = DetReset(@)]

\* ------------------------------------------------------------------------
\* BollingerBands; the value returned is mean + sqrt(variance) * multiplier,
\* given as [mean, sqrt, multiplier].  As Minimum::new, BollingerBands::new
\* builds its own detector with AdaptiveTimeDetector::new()
\* (bollinger_bands.rs:45).
\* ------------------------------------------------------------------------
BbNew(duration, multiplier) ==
    [ kind |-> "BB", duration |-> duration, multiplier |-> multiplier,
      sd |-> SdNew(duration), window |-> << >>,
      detector |-> DetNew(duration) ]

RECURSIVE BbRemoveOldData(_, _)
BbRemoveOldData(s, current_time) ==
    IF s.window # << >> /\ StaleInclusive(Time(s.window[1]), current_time, s.duration)
    THEN BbRemoveOldData([s EXCEPT !.window = PopFront(@)], current_time)
    ELSE s

RECURSIVE SumValues(_)
SumValues(w) == IF w = << >> THEN F(0) ELSE FAdd(Value(w[1]), SumValues(Tail(w)))

BbNext(s, timestamp, value) ==
    LET r  == DetShouldReplace(s.detector, timestamp)
        s0 == [s EXCEPT !.detector = r.det]
        s1 == IF r.ret /\ s0.window # << >>
              THEN [s0 EXCEPT !.window = PopBack(@)]
              ELSE BbRemoveOldData(s0, timestamp)
        s2 == [s1 EXCEPT !.window = PushBack(@, << timestamp, value >>)]
        mean == FDiv(SumValues(s2.window), F(Len(s2.window)))
        sd == SdNext(s2.sd, timestamp, value)
    IN  [ st |-> [s2 EXCEPT !.sd = sd.st], rep |-> r.ret,
          out |-> [ mean |-> mean, sqrt |-> sd.out.sqrt,
                    multiplier |-> s.multiplier ] ]

BbReset(s) ==
    [s EXCEPT !.sd = SdReset(@), !.window = << >>, !.detector = DetReset(@)]

\* ------------------------------------------------------------------------
\* ExponentialMovingAverage
\* ------------------------------------------------------------------------
EmaNew(period, period_duration) ==
    [ period |-> period, period_duration |-> period_duration,
      k |-> FDiv(F(2), FAdd(F(period), F(1))),
      current |-> F(0), is_new |-> TRUE, last_value |-> F(0),
      last_timestamp |-> None, last_adjusted_k |-> F(0) ]

RECURSIVE FPowInt(_, _)
FPowInt(base, n) == IF n = 0 THEN F(1) ELSE FMul(base, FPowInt(base, n - 1))

\* f64::powf(base, num as f64 / den as f64) for 0 <= base < 1, num > 0 and
\* den >= 0.  The quotient is +inf when den = 0, and the power is then 0.
\* Defined for the exponents that are whole numbers, which are the only ones
\* the specification of the smoother produces.
Powf(base, num, den) ==
    IF den = 0 THEN F(0)
    ELSE FPowInt(base, CHOOSE n \in 1 .. num : n * den = num)

\* CalculateAdjustedK that weighs every later sample with k, whatever time
\* has elapsed
CalculateAdjustedK_PlainK(s, timestamp) ==
    IF s.last_timestamp # None
    THEN LET time_elapsed == timestamp - s.last_timestamp[1]
         IN  IF NumSeconds(time_elapsed) <= 0 THEN F(0) ELSE s.k
    ELSE F(1)

\* ExponentialMovingAverage::calculate_adjusted_k
CalculateAdjustedK(s, timestamp) ==
    IF s.last_timestamp # None
    THEN LET time_elapsed == timestamp - s.last_timestamp[1]
         IN  IF NumSeconds(time_elapsed) <= 0 THEN F(0)
             ELSE FSub(F(1), Powf(FSub(F(1), s.k), NumSeconds(time_elapsed),
                                  AsSecs(s.period_duration)))
    ELSE F(1)

\* EmaReplace that stores a full weight as the last decay
EmaReplace_FullDecay(s, value) ==
    LET a == s.last_adjusted_k
        s1 == IF FGt(a, F(0)) /\ FLt(a, F(1))
              THEN LET old_current == FDiv(FSub(s.current, FMul(a, s.last_value)),
                                           FSub(F(1), a))
                   IN  [s EXCEPT !.current = FAdd(FMul(a, value),
                                                  FMul(FSub(F(1), a), old_current))]
              ELSE IF FLe(F(1), a)
              THEN [s EXCEPT !.current = value]
              ELSE s
    IN  [s1 EXCEPT !.last_value = value, !.last_adjusted_k = F(1)]

\* EmaReplace that blends the new value in without undoing the last blend
EmaReplace_NoUndo(s, value) ==
    [s EXCEPT !.current = FAdd(FMul(s.last_adjusted_k, value),
                               FMul(FSub(F(1), s.last_adjusted_k), s.current)),
              !.last_value = value]

\* the replacement branch of ExponentialMovingAverage::next
EmaReplace(s, value) ==
    LET a == s.last_adjusted_k
        s1 == IF FGt(a, F(0)) /\ FLt(a, F(1))
              THEN LET old_current == FDiv(FSub(s.current, FMul(a, s.last_value)),
                                           FSub(F(1), a))
                   IN  [s EXCEPT !.current = FAdd(FMul(a, value),
                                                  FMul(FSub(F(1), a), old_current))]
              ELSE IF FLe(F(1), a)
              THEN [s EXCEPT !.current = value]
              ELSE s
    IN  [s1 EXCEPT !.last_value = value]

\* EmaAdvance whose first call does not store the full weight
EmaAdvance_FirstKeepsDecay(s, timestamp, value) ==
    LET adjusted_k == CalculateAdjustedK(s, timestamp)
        s1 == IF s.is_new
              THEN [s EXCEPT !.is_new = FALSE, !.current = value]
              ELSE IF FGt(adjusted_k, F(0))
              THEN [s EXCEPT !.current = FAdd(FMul(adjusted_k, value),
                                              FMul(FSub(F(1), adjusted_k), s.current)),
                             !.last_adjusted_k = adjusted_k]
              ELSE s
    IN  [s1 EXCEPT !.last_timestamp = Some(timestamp), !.last_value = value]

\* the new-timestamp branch of ExponentialMovingAverage::next
EmaAdvance(s, timestamp, value) ==
    LET adjusted_k == CalculateAdjustedK(s, timestamp)
        s1 == IF s.is_new
              THEN [s EXCEPT !.is_new = FALSE, !.current = value,
                             !.last_adjusted_k = F(1)]
              ELSE IF FGt(adjusted_k, F(0))
              THEN [s EXCEPT !.current = FAdd(FMul(adjusted_k, value),
                                              FMul(FSub(F(1), adjusted_k), s.current)),
                             !.last_adjusted_k = adjusted_k]
              ELSE s
    IN  [s1 EXCEPT !.last_timestamp = Some(timestamp), !.last_value = value]

\* ExponentialMovingAverage::next: the smoother after the call and the
\* value returned
EmaNext(s, timestamp, value) ==
    LET is_replacement == s.last_timestamp = Some(timestamp)
        s1 == IF is_replacement /\ ~s.is_new
              THEN EmaReplace(s, value)
              ELSE EmaAdvance(s, timestamp, value)
    IN  [ st |-> s1, out |-> s1.current ]

EmaReset(s) ==
    [s EXCEPT !.current = F(0), !.is_new = TRUE, !.last_value = F(0),
              !.last_timestamp = None, !.last_adjusted_k = F(0)]

\* ------------------------------------------------------------------------
\* RelativeStrengthIndex.  Its period_duration is a chrono::Duration; the
\* two smoothers are built with the same period and period duration.
\* ------------------------------------------------------------------------
RsiNew(period, period_duration) ==
    [ period |-> period, period_duration |-> period_duration,
      up_ema_indicator |-> EmaNew(period, period_duration),
      down_ema_indicator |-> EmaNew(period, period_duration),
      prev_val |-> None, prev_timestamp |-> None ]

\* RelativeStrengthIndex::calculate_gain_loss: << gain, loss >>
CalculateGainLoss(s, value, timestamp) ==
    IF s.prev_val # None /\ s.prev_timestamp # None
    THEN LET time_elapsed == timestamp - s.prev_timestamp[1]
             price_change == FSub(value, s.prev_val[1])
             time_factor == FDiv(F(NumSeconds(time_elapsed)),
                                 F(NumSeconds(s.period_duration)))
         IN  IF NumSeconds(time_elapsed) <= 0 THEN << F(0), F(0) >>
             ELSE IF FGt(price_change, F(0))
             THEN << FMul(price_change, time_factor), F(0) >>
             ELSE << F(0), FMul(FNeg(price_change), time_factor) >>
    ELSE << F(0), F(0) >>

\* the value returned by RelativeStrengthIndex::next for the two averages
RsiValue(avg_up, avg_down) ==
    IF avg_down = F(0)
    THEN IF avg_up = F(0) THEN F(50) ELSE F(100)
    ELSE LET rs == FDiv(avg_up, avg_down)
         IN  FSub(F(100), FDiv(F(100), FAdd(F(1), rs)))

\* the "update state for next calculation" step of RelativeStrengthIndex::next
RsiStore(s, is_replacement, timestamp, value) ==
    [s EXCEPT !.prev_timestamp = IF is_replacement THEN @ ELSE Some(timestamp),
              !.prev_val = Some(value)]

\* RelativeStrengthIndex::next: the oscillator after the call and the value
\* returned
RsiNext(s, timestamp, value) ==
    LET is_replacement == s.prev_timestamp = Some(timestamp)
        gain_loss == IF is_replacement THEN << F(0), F(0) >>
                     ELSE CalculateGainLoss(s, value, timestamp)
        up == EmaNext(s.up_ema_indicator, timestamp, gain_loss[1])
        down == EmaNext(s.down_ema_indicator, timestamp, gain_loss[2])
        s1 == [s EXCEPT !.up_ema_indicator = up.st, !.down_ema_indicator = down.st]
    IN  [ st |-> RsiStore(s1, is_replacement, timestamp, value),
          out |-> RsiValue(up.out, down.out) ]

RsiReset(s) ==
    [s EXCEPT !.prev_val = None, !.prev_timestamp = None,
              !.up_ema_indicator = EmaReset(@), !.down_ema_indicator = EmaReset(@)]

\* ------------------------------------------------------------------------
\* The constructors as called: Result<Self>, Err(TaError::InvalidParameter)
\* or Ok(the instance)
\* ------------------------------------------------------------------------
Err(e) == [ ok |-> FALSE, err |-> e ]
Ok(x) == [ ok |-> TRUE, value |-> x ]
InvalidParameter == "InvalidParameter"

\* std::time::Duration::subsec_nanos: the part of a duration under a second
SubsecNanos(d) == d % TicksPerSec

\* IsZero that looks at the whole seconds only
IsZero_WholeSeconds(duration) ==
    AsSecs(duration) = 0

\* the test of the constructors: duration.as_secs() == 0 &&
\* duration.subsec_nanos() == 0
IsZero(duration) ==
    AsSecs(duration) = 0 /\ SubsecNanos(duration) = 0

SmaNewResult(duration) ==
    IF IsZero(duration) THEN Err(InvalidParameter) ELSE Ok(SmaNew(duration))
SdNewResult(duration) ==
    IF IsZero(duration) THEN Err(InvalidParameter) ELSE Ok(SdNew(duration))
MaxNewResult(duration) ==
    IF IsZero(duration) THEN Err(InvalidParameter) ELSE Ok(MaxNew(duration))
MinNewResult(duration) ==
    IF IsZero(duration) THEN Err(InvalidParameter) ELSE Ok(MinNew(duration))
MddNewResult(duration) ==
    IF IsZero(duration) THEN Err(InvalidParameter) ELSE Ok(MddNew(duration))
MduNewResult(duration) ==
    IF IsZero(duration) THEN Err(InvalidParameter) ELSE Ok(MduNew(duration))
\* BollingerBands::new: its own test, then Sd::new(duration)?
BbNewResult(duration, multiplier) ==
    IF IsZero(duration) THEN Err(InvalidParameter)
    ELSE IF ~SdNewResult(duration).ok THEN SdNewResult(duration)
    ELSE Ok(BbNew(duration, multiplier))
EmaNewResult(period, period_duration) ==
    IF period = 0 \/ IsZero(period_duration) THEN Err(InvalidParameter)
    ELSE Ok(EmaNew(period, period_duration))
\* RelativeStrengthIndex::new: Ema::new(period, period_duration)? twice
RsiNewResult(period, period_duration) ==
    IF ~EmaNewResult(period, period_duration).ok
    THEN EmaNewResult(period, period_duration)
    ELSE Ok(RsiNew(period, period_duration))
\* AdaptiveTimeDetector::new returns Self: there is no error to return
DetNewResult(duration) == Ok(DetNew(duration))

\* ------------------------------------------------------------------------
\* The calls of next that do not return.  Every remove function starts with
\* chrono::Duration::from_std(self.duration).unwrap() and, while the window
\* has a front entry, computes current_time - chrono_duration.
\* ------------------------------------------------------------------------
\* chrono::Duration::from_std: an Err for a duration longer than the longest
\* chrono::Duration
FromStd(duration) ==
    IF duration > Secs(ChronoDurationMaxSecs) THEN None ELSE Some(duration)

\* DateTime - Duration is checked_sub_signed(..).expect(..): None when the
\* result is before the earliest DateTime
CheckedSubSigned(time, chrono_duration) ==
    IF time - chrono_duration < Secs(DateTimeMinSecs) THEN None
    ELSE Some(time - chrono_duration)

\* remove_old_data panics: the unwrap of from_std, or the subtraction in the
\* loop condition, which is computed when the window has a front entry
RemoveOldDataPanics(s, current_time) ==
    \/ FromStd(s.duration) = None
    \/ /\ s.window # << >>
       /\ CheckedSubSigned(current_time, s.duration) = None

\* next of SimpleMovingAverage, StandardDeviation, Maximum, MaxDrawdown and
\* MaxDrawup, which call remove_old_data on every call
SmaNextPanics(s, timestamp) == RemoveOldDataPanics(s, timestamp)
SdNextPanics(s, timestamp) == RemoveOldDataPanics(s, timestamp)
MaxNextPanics(s, timestamp) == RemoveOldDataPanics(s, timestamp)
MddNextPanics(s, timestamp) == RemoveOldDataPanics(s, timestamp)
MduNextPanics(s, timestamp) == RemoveOldDataPanics(s, timestamp)
\* Minimum::next calls remove_old when it does not replace
MinNextPanics(s, timestamp) ==
    LET should_replace == DetShouldReplace(s.detector, timestamp).ret
    IN  /\ ~(should_replace /\ s.window # << >>)
        /\ RemoveOldDataPanics(s, timestamp)
\* BollingerBands::next calls remove_old_data when it does not replace, and
\* then self.sd.next
BbNextPanics(s, timestamp) ==
    LET should_replace == DetShouldReplace(s.detector, timestamp).ret
    IN  \/ /\ ~(should_replace /\ s.window # << >>)
           /\ RemoveOldDataPanics(s, timestamp)
        \/ SdNextPanics(s.sd, timestamp)

\* ------------------------------------------------------------------------
\* Serialization: every struct derives Serialize and Deserialize, and
\* tests/test.rs takes the round trip through bincode.  A struct is the
\* sequence of its fields in the order of declaration; the encodings of the
\* fields are those of serde for the types of std and chrono.
\* ------------------------------------------------------------------------
\* f64: its bits
EncF64(x) == << "f64", x[1], x[2] >>
DecF64(b) == << b[2], b[3] >>

\* std::time::Duration: secs and nanos
EncDuration(d) == << AsSecs(d), SubsecNanos(d) >>
DecDuration(b) == Secs(b[1]) + b[2]

\* EncDateTime with the seconds truncated toward zero
EncDateTime_Truncated(t) ==
    << TruncDiv(t, TicksPerSec), t % TicksPerSec >>

\* DateTime<Utc>: the RFC 3339 text, which has the whole seconds since the
\* epoch (as date and time of day) and the fraction of a second after them
EncDateTime(t) ==
    << Timestamp(t), t % TicksPerSec >>
DecDateTime(b) == Secs(b[1]) + b[2]

\* Option<DateTime<Utc>> and Option<f64>: a tag, then the value
EncOptionDateTime(o) == IF o = None THEN << 0 >> ELSE << 1, EncDateTime(o[1]) >>
DecOptionDateTime(b) == IF b[1] = 0 THEN None ELSE Some(DecDateTime(b[2]))
EncOptionF64(o) == IF o = None THEN << 0 >> ELSE << 1, EncF64(o[1]) >>
DecOptionF64(b) == IF b[1] = 0 THEN None ELSE Some(DecF64(b[2]))

\* bool
EncBool(x) == IF x THEN 1 ELSE 0
DecBool(b) == b = 1

\* VecDeque<(DateTime<Utc>, f64)>: the length, then the entries
EncEntry(e) == << EncDateTime(Time(e)), EncF64(Value(e)) >>
DecEntry(b) == << DecDateTime(b[1]), DecF64(b[2]) >>
EncWindow(w) == << Len(w), [ i \in 1 .. Len(w) |-> EncEntry(w[i]) ] >>
DecWindow(b) == [ i \in 1 .. b[1] |-> DecEntry(b[2][i]) ]

\* DetectedFrequency: the index of the variant, then its field
EncFrequency(f) ==
    CASE f.kind = "Unknown"   -> << 0 >>
      [] f.kind = "DailyOHLC" -> << 1 >>
      [] f.kind = "Intraday"  -> << 2, EncDuration(f.bucket) >>
DecFrequency(b) ==
    CASE b[1] = 0 -> [kind |-> "Unknown"]
      [] b[1] = 1 -> DailyOHLC
      [] b[1] = 2 -> Intraday(DecDuration(b[2]))

DetSerialize(d) ==
    << EncFrequency(d.frequency), d.last_minute_bucket,
       EncOptionDateTime(d.last_timestamp) >>
DetDeserialize(b) ==
    [ frequency |-> DecFrequency(b[1]), last_minute_bucket |-> b[2],
      last_timestamp |-> DecOptionDateTime(b[3]) ]

SmaSerialize(s) ==
    << EncDuration(s.duration), EncWindow(s.window), EncF64(s.sum),
       DetSerialize(s.detector) >>
SmaDeserialize(b) ==
    [ kind |-> "SMA", duration |-> DecDuration(b[1]), window |-> DecWindow(b[2]),
      sum |-> DecF64(b[3]), detector |-> DetDeserialize(b[4]) ]

SdSerialize(s) ==
    << EncDuration(s.duration), EncWindow(s.window), EncF64(s.sum),
       EncF64(s.sum_sq), DetSerialize(s.detector) >>
SdDeserialize(b) ==
    [ kind |-> "SD", duration |-> DecDuration(b[1]), window |-> DecWindow(b[2]),
      sum |-> DecF64(b[3]), sum_sq |-> DecF64(b[4]),
      detector |-> DetDeserialize(b[5]) ]

MaxSerialize(s) ==
    << EncDuration(s.duration), EncWindow(s.window), DetSerialize(s.detector) >>
MaxDeserialize(b) ==
    [ kind |-> "MAX", duration |-> DecDuration(b[1]), window |-> DecWindow(b[2]),
      detector |-> DetDeserialize(b[3]) ]

MinSerialize(s) ==
    << EncDuration(s.duration), EncWindow(s.window), EncF64(s.min_value),
       DetSerialize(s.detector) >>
MinDeserialize(b) ==
    [ kind |-> "MIN", duration |-> DecDuration(b[1]), window |-> DecWindow(b[2]),
      min_value |-> DecF64(b[3]), detector |-> DetDeserialize(b[4]) ]

MddSerialize(s) ==
    << EncDuration(s.duration), EncWindow(s.window), DetSerialize(s.detector) >>
MddDeserialize(b) ==
    [ kind |-> "MDD", duration |-> DecDuration(b[1]), window |-> DecWindow(b[2]),
      detector |-> DetDeserialize(b[3]) ]

MduSerialize(s) ==
    << EncDuration(s.duration), EncWindow(s.window), DetSerialize(s.detector) >>
MduDeserialize(b) ==
    [ kind |-> "MDU", duration |-> DecDuration(b[1]), window |-> DecWindow(b[2]),
      detector |-> DetDeserialize(b[3]) ]

BbSerialize(s) ==
    << EncDuration(s.duration), EncF64(s.multiplier), SdSerialize(s.sd),
       EncWindow(s.window), DetSerialize(s.detector) >>
BbDeserialize(b) ==
    [ kind |-> "BB", duration |-> DecDuration(b[1]), multiplier |-> DecF64(b[2]),
      sd |-> SdDeserialize(b[3]), window |-> DecWindow(b[4]),
      detector |-> DetDeserialize(b[5]) ]

EmaSerialize(s) ==
    << s.period, EncDuration(s.period_duration), EncF64(s.k), EncF64(s.current),
       EncBool(s.is_new), EncF64(s.last_value),
       EncOptionDateTime(s.last_timestamp), EncF64(s.last_adjusted_k) >>
EmaDeserialize(b) ==
    [ period |-> b[1], period_duration |-> DecDuration(b[2]), k |-> DecF64(b[3]),
      current |-> DecF64(b[4]), is_new |-> DecBool(b[5]),
      last_value |-> DecF64(b[6]), last_timestamp |-> DecOptionDateTime(b[7]),
      last_adjusted_k |-> DecF64(b[8]) ]

RsiSerialize(s) ==
    << s.period, EncDuration(s.period_duration),
       EmaSerialize(s.up_ema_indicator), EmaSerialize(s.down_ema_indicator),
       EncOptionF64(s.prev_val), EncOptionDateTime(s.prev_timestamp) >>
RsiDeserialize(b) ==
    [ period |-> b[1], period_duration |-> DecDuration(b[2]),
      up_ema_indicator |-> EmaDeserialize(b[3]),
      down_ema_indicator |-> EmaDeserialize(b[4]),
      prev_val |-> DecOptionF64(b[5]),
      prev_timestamp |-> DecOptionDateTime(b[6]) ]

\* the window indicator read back from its serialization
RoundTrip(s) ==
    CASE s.kind = "SMA" -> SmaDeserialize(SmaSerialize(s))
      [] s.kind = "SD"  -> SdDeserialize(SdSerialize(s))
      [] s.kind = "MAX" -> MaxDeserialize(MaxSerialize(s))
      [] s.kind = "MIN" -> MinDeserialize(MinSerialize(s))
      [] s.kind = "MDD" -> MddDeserialize(MddSerialize(s))
      [] s.kind = "MDU" -> MduDeserialize(MduSerialize(s))
      [] s.kind = "BB"  -> BbDeserialize(BbSerialize(s))

\* next of the window indicator s
Next(s, timestamp, value) ==
    CASE s.kind = "SMA" -> SmaNext(s, timestamp, value)
      [] s.kind = "SD"  -> SdNext(s, timestamp, value)
      [] s.kind = "MAX" -> MaxNext(s, timestamp, value)
      [] s.kind = "MIN" -> MinNext(s, timestamp, value)
      [] s.kind = "MDD" -> MddNext(s, timestamp, value)
      [] s.kind = "MDU" -> MduNext(s, timestamp, value)
      [] s.kind = "BB"  -> BbNext(s, timestamp, value)

\* ------------------------------------------------------------------------
\* State
\* ------------------------------------------------------------------------
VARIABLES
    det,          \* the AdaptiveTimeDetector under test
    det_duration, \* the duration it was constructed with
    det_pre,      \* the detector before the last operation
    det_op,       \* the last operation: "new", "should_replace", "reset"
    det_arg,      \* the timestamp of the last should_replace call
    det_prev_arg, \* the timestamp of the call before it, None when the last
                  \* call was the first one since construction or reset
    det_ret,      \* what the last should_replace call returned
    det_calls     \* number of operations so far

det_vars == << det, det_duration, det_pre, det_op, det_arg, det_prev_arg,
              det_ret, det_calls >>

VARIABLES
    ind,          \* the window indicator under test
    win_pre,      \* the indicator before the last operation
    win_op,       \* the last operation: "new", "next", "reset", or "panic"
                  \* for a next call that did not return
    win_in,       \* the (timestamp, value) of the last next call
    win_rep,      \* what should_replace returned in the last next call
    win_out,      \* what the last next call returned
    win_fed,      \* the next calls since construction or reset, oldest
                  \* first: [time, value, rep]
    win_calls     \* number of operations so far

win_vars == << ind, win_pre, win_op, win_in, win_rep, win_out, win_fed,
              win_calls >>

VARIABLES
    ema,          \* the ExponentialMovingAverage under test
    ema_pre,      \* the smoother before the last operation
    ema_op,       \* the last operation: "new", "next", "reset"
    ema_in,       \* the (timestamp, value) of the last next call, None
                  \* after construction or reset
    ema_out,      \* what the last next call returned
    ema_base,     \* the smoother before the first of the latest run of next
                  \* calls with one and the same timestamp
    ema_run,      \* the length of that run
    ema_cadence,  \* every call since construction or reset but the first
                  \* came exactly period_duration after the one before
    ema_regular,  \* every call since construction or reset but the first
                  \* came at the time of the one before or a whole second
                  \* or more after it
    ema_ordered,  \* every call since construction or reset but the first
                  \* came at the time of the one before or later
    ema_lo,       \* the smallest value fed since construction or reset,
                  \* +inf when none was
    ema_hi,       \* the largest value fed since construction or reset,
                  \* -inf when none was
    ema_calls     \* number of operations so far

ema_vars == << ema, ema_pre, ema_op, ema_in, ema_out, ema_base, ema_run,
              ema_cadence, ema_regular, ema_ordered, ema_lo, ema_hi,
              ema_calls >>

VARIABLES
    rsi,          \* the RelativeStrengthIndex under test
    rsi_pre,      \* the oscillator before the last operation
    rsi_op,       \* the last operation: "new", "next", "reset"
    rsi_in,       \* the (timestamp, value) of the last next call, None
                  \* after construction or reset
    rsi_out,      \* what the last next call returned
    rsi_calls     \* number of operations so far

rsi_vars == << rsi, rsi_pre, rsi_op, rsi_in, rsi_out, rsi_calls >>

VARIABLES
    ctor_args,    \* the arguments of the constructor call under test:
                  \* [duration, period]
    ctor_op,      \* the constructor called, "none" before the call
    ctor_result   \* what the call returned

ctor_vars == << ctor_args, ctor_op, ctor_result >>

VARIABLES
    rep_start,    \* the time T of the first sample of the replay
    rep_minute,   \* the minutes after T of the last sample fed
    rep_opened,   \* the times at which should_replace returned false
    rep_duration  \* the duration the detector of the replay was built with

rep_vars == << rep_start, rep_minute, rep_opened, rep_duration >>

\* the variables of the specifications of the oscillator, the constructors
\* and the replay
ext_vars == << rsi_vars, ctor_vars, rep_vars >>

vars == << det_vars, win_vars, ema_vars, ext_vars >>

\* the variables of a component that a specification does not use
DetIdle ==
    /\ det = None /\ det_duration = 0 /\ det_pre = None /\ det_op = "idle"
    /\ det_arg = None /\ det_prev_arg = None /\ det_ret = FALSE /\ det_calls = 0
WinIdle ==
    /\ ind = None /\ win_pre = None /\ win_op = "idle" /\ win_in = None
    /\ win_rep = FALSE /\ win_out = None /\ win_fed = << >> /\ win_calls = 0
EmaIdle ==
    /\ ema = None /\ ema_pre = None /\ ema_op = "idle" /\ ema_in = None
    /\ ema_out = None /\ ema_base = None /\ ema_run = 0
    /\ ema_cadence = TRUE /\ ema_regular = TRUE /\ ema_calls = 0
    /\ ema_ordered = TRUE /\ ema_lo = F64_INFINITY /\ ema_hi = F64_NEG_INFINITY
RsiIdle ==
    /\ rsi = None /\ rsi_pre = None /\ rsi_op = "idle" /\ rsi_in = None
    /\ rsi_out = None /\ rsi_calls = 0
CtorIdle ==
    /\ ctor_args = None /\ ctor_op = "idle" /\ ctor_result = None
RepIdle ==
    /\ rep_start = 0 /\ rep_minute = 0 /\ rep_opened = << >> /\ rep_duration = 0
ExtIdle == RsiIdle /\ CtorIdle /\ RepIdle

\* ------------------------------------------------------------------------
\* Specification of the detector
\* ------------------------------------------------------------------------
\* Durations around the two mode limits
DetDurations ==
    { 1, Secs(SecondModeLimitSecs) - 1, Secs(SecondModeLimitSecs),
      Secs(MinuteModeLimitSecs) - 1, Secs(MinuteModeLimitSecs),
      Secs(MinuteModeLimitSecs) + 1 }

\* The first timestamp is near the epoch, on either side of it; every later
\* one is the previous one plus a step
DetStarts == { -(TicksPerSec + 1), -1, 0, Secs(60) }
DetSteps == { -1, 0, 1, Secs(1), Secs(60), Secs(MinGapSecs) - 1, Secs(MinGapSecs) }
DetTimestamps ==
    IF det_arg = None THEN DetStarts ELSE { det_arg[1] + s : s \in DetSteps }

DetInit ==
    /\ det_duration \in DetDurations
    /\ det = DetNew(det_duration)
    /\ det_pre = det
    /\ det_op = "new"
    /\ det_arg = None
    /\ det_prev_arg = None
    /\ det_ret = FALSE
    /\ det_calls = 0
    /\ WinIdle
    /\ EmaIdle
    /\ ExtIdle

ShouldReplace ==
    /\ det_calls < MaxDetCalls
    /\ \E timestamp \in DetTimestamps :
         LET r == DetShouldReplace(det, timestamp)
         IN  /\ det' = r.det
             /\ det_ret' = r.ret
             /\ det_arg' = Some(timestamp)
    /\ det_prev_arg' = IF det_op = "should_replace" THEN det_arg ELSE None
    /\ det_pre' = det
    /\ det_op' = "should_replace"
    /\ det_calls' = det_calls + 1
    /\ UNCHANGED << det_duration, win_vars, ema_vars, ext_vars >>

DetectorReset ==
    /\ det_calls < MaxDetCalls
    /\ det_op = "should_replace"
    /\ det' = DetReset(det)
    /\ det_pre' = det
    /\ det_op' = "reset"
    /\ det_calls' = det_calls + 1
    /\ UNCHANGED << det_duration, det_arg, det_prev_arg, det_ret, win_vars, ema_vars, ext_vars >>

DetNext == ShouldReplace \/ DetectorReset

SpecDet == DetInit /\ [][DetNext]_vars

\* ------------------------------------------------------------------------
\* Specification of the window indicators: one indicator of any of the
\* seven kinds, built with one of the durations, then fed and reset
\* ------------------------------------------------------------------------
Kinds == { "SMA", "SD", "MAX", "MIN", "MDD", "MDU", "BB" }

\* one duration per bucketing mode
WinDurations == { Secs(2), Secs(SecondModeLimitSecs), Secs(MinuteModeLimitSecs) }
WinValues == { F(1), F(2) }
BbMultiplier == F(2)

New(kind, duration) ==
    CASE kind = "SMA" -> SmaNew(duration)
      [] kind = "SD"  -> SdNew(duration)
      [] kind = "MAX" -> MaxNew(duration)
      [] kind = "MIN" -> MinNew(duration)
      [] kind = "MDD" -> MddNew(duration)
      [] kind = "MDU" -> MduNew(duration)
      [] kind = "BB"  -> BbNew(duration, BbMultiplier)

\* The first timestamp is at or just before the epoch; every later one is
\* the previous one plus a step: half a second back, none, half a second,
\* a second, and the duration or half a second less
WinStarts == { -1, 0 }
WinSteps == { -1, 0, 1, Secs(1), ind.duration - 1, ind.duration }
WinTimestamps ==
    IF win_in = None THEN WinStarts ELSE { Time(win_in) + s : s \in WinSteps }

WinInit ==
    /\ \E kind \in Kinds, duration \in WinDurations : ind = New(kind, duration)
    /\ win_pre = ind
    /\ win_op = "new"
    /\ win_in = None
    /\ win_rep = FALSE
    /\ win_out = None
    /\ win_fed = << >>
    /\ win_calls = 0
    /\ DetIdle
    /\ EmaIdle
    /\ ExtIdle

\* what every next action does with the result r of the indicator's next
Fed(r, timestamp, value) ==
    /\ win_calls < MaxWinCalls
    /\ ind' = r.st
    /\ win_rep' = r.rep
    /\ win_out' = r.out
    /\ win_in' = << timestamp, value >>
    /\ win_fed' = Append(win_fed, [time |-> timestamp, value |-> value, rep |-> r.rep])
    /\ win_pre' = ind
    /\ win_op' = "next"
    /\ win_calls' = win_calls + 1
    /\ UNCHANGED << det_vars, ema_vars, ext_vars >>

\* what every reset action does with the indicator s after reset
Cleared(s) ==
    /\ win_calls < MaxWinCalls
    /\ win_op = "next"
    /\ ind' = s
    /\ win_fed' = << >>
    /\ win_pre' = ind
    /\ win_op' = "reset"
    /\ win_calls' = win_calls + 1
    /\ UNCHANGED << win_in, win_rep, win_out, det_vars, ema_vars, ext_vars >>

SmaNextCall ==
    /\ ind.kind = "SMA"
    /\ \E timestamp \in WinTimestamps, value \in WinValues :
         Fed(SmaNext(ind, timestamp, value), timestamp, value)
SdNextCall ==
    /\ ind.kind = "SD"
    /\ \E timestamp \in WinTimestamps, value \in WinValues :
         Fed(SdNext(ind, timestamp, value), timestamp, value)
MaxNextCall ==
    /\ ind.kind = "MAX"
    /\ \E timestamp \in WinTimestamps, value \in WinValues :
         Fed(MaxNext(ind, timestamp, value), timestamp, value)
MinNextCall ==
    /\ ind.kind = "MIN"
    /\ \E timestamp \in WinTimestamps, value \in WinValues :
         Fed(MinNext(ind, timestamp, value), timestamp, value)
MddNextCall ==
    /\ ind.kind = "MDD"
    /\ \E timestamp \in WinTimestamps, value \in WinValues :
         Fed(MddNext(ind, timestamp, value), timestamp, value)
MduNextCall ==
    /\ ind.kind = "MDU"
    /\ \E timestamp \in WinTimestamps, value \in WinValues :
         Fed(MduNext(ind, timestamp, value), timestamp, value)
BbNextCall ==
    /\ ind.kind = "BB"
    /\ \E timestamp \in WinTimestamps, value \in WinValues :
         Fed(BbNext(ind, timestamp, value), timestamp, value)

SmaResetCall == ind.kind = "SMA" /\ Cleared(SmaReset(ind))
SdResetCall == ind.kind = "SD" /\ Cleared(SdReset(ind))
MaxResetCall == ind.kind = "MAX" /\ Cleared(MaxReset(ind))
MinResetCall == ind.kind = "MIN" /\ Cleared(MinReset(ind))
MddResetCall == ind.kind = "MDD" /\ Cleared(MddReset(ind))
MduResetCall == ind.kind = "MDU" /\ Cleared(MduReset(ind))
BbResetCall == ind.kind = "BB" /\ Cleared(BbReset(ind))

WinNext ==
    \/ SmaNextCall \/ SdNextCall \/ MaxNextCall \/ MinNextCall
    \/ MddNextCall \/ MduNextCall \/ BbNextCall
    \/ SmaResetCall \/ SdResetCall \/ MaxResetCall \/ MinResetCall
    \/ MddResetCall \/ MduResetCall \/ BbResetCall

SpecWin == WinInit /\ [][WinNext]_vars

\* ------------------------------------------------------------------------
\* Specification of the smoother: built with a period count and a period
\* duration, then fed and reset
\* ------------------------------------------------------------------------
EmaPeriods == { 1, 3 }
\* half a second, a second, a second and a half, two seconds
EmaPeriodDurations == { 1, Secs(1), Secs(1) + 1, Secs(2) }
EmaValues == { F(1), F(3) }

\* The first timestamp is the epoch; every later one is the previous one
\* plus a step: half a second back, none, half a second, one period or two
EmaSteps == { -1, 0, 1, ema.period_duration, 2 * ema.period_duration }
EmaTimestamps ==
    IF ema_in = None THEN { 0 } ELSE { Time(ema_in) + s : s \in EmaSteps }

EmaInit ==
    /\ \E period \in EmaPeriods, period_duration \in EmaPeriodDurations :
         ema = EmaNew(period, period_duration)
    /\ ema_pre = ema
    /\ ema_op = "new"
    /\ ema_in = None
    /\ ema_out = None
    /\ ema_base = ema
    /\ ema_run = 0
    /\ ema_cadence = TRUE
    /\ ema_regular = TRUE
    /\ ema_ordered = TRUE
    /\ ema_lo = F64_INFINITY
    /\ ema_hi = F64_NEG_INFINITY
    /\ ema_calls = 0
    /\ DetIdle
    /\ WinIdle
    /\ ExtIdle

EmaNextCall ==
    /\ ema_calls < MaxEmaCalls
    /\ \E timestamp \in EmaTimestamps, value \in EmaValues :
         LET r == EmaNext(ema, timestamp, value)
             first == ema_in = None
             step == IF first THEN 0 ELSE timestamp - Time(ema_in)
             same == ~first /\ step = 0
         IN  /\ ema' = r.st
             /\ ema_out' = r.out
             /\ ema_in' = << timestamp, value >>
             /\ ema_base' = IF same THEN ema_base ELSE ema
             /\ ema_run' = IF same THEN ema_run + 1 ELSE 1
             /\ ema_cadence' = (ema_cadence /\ (first \/ step = ema.period_duration))
             /\ ema_regular' = (ema_regular /\ (first \/ same \/ step >= Secs(1)))
             /\ ema_ordered' = (ema_ordered /\ step >= 0)
             /\ ema_lo' = FMin(ema_lo, value)
             /\ ema_hi' = FMax(ema_hi, value)
    /\ ema_pre' = ema
    /\ ema_op' = "next"
    /\ ema_calls' = ema_calls + 1
    /\ UNCHANGED << det_vars, win_vars, ext_vars >>

EmaResetCall ==
    /\ ema_calls < MaxEmaCalls
    /\ ema_op = "next"
    /\ ema' = EmaReset(ema)
    /\ ema_pre' = ema
    /\ ema_op' = "reset"
    /\ ema_in' = None
    /\ ema_base' = ema'
    /\ ema_run' = 0
    /\ ema_cadence' = TRUE
    /\ ema_regular' = TRUE
    /\ ema_ordered' = TRUE
    /\ ema_lo' = F64_INFINITY
    /\ ema_hi' = F64_NEG_INFINITY
    /\ ema_calls' = ema_calls + 1
    /\ UNCHANGED << ema_out, det_vars, win_vars, ext_vars >>

EmaSpecNext == EmaNextCall \/ EmaResetCall

SpecEma == EmaInit /\ [][EmaSpecNext]_vars

\* ------------------------------------------------------------------------
\* Specification of the oscillator: built with a period count and a period
\* duration, then fed and reset
\* ------------------------------------------------------------------------
RsiPeriods == { 1, 3 }
\* half a second, a second, two seconds
RsiPeriodDurations == { 1, Secs(1), Secs(2) }
RsiValues == { F(1), F(2), F(3) }

\* The first timestamp is the epoch; every later one is the previous one
\* plus a step: half a second back, none, half a second, one period or two
RsiSteps == { -1, 0, 1, rsi.period_duration, 2 * rsi.period_duration }
RsiTimestamps ==
    IF rsi_in = None THEN { 0 } ELSE { Time(rsi_in) + s : s \in RsiSteps }

RsiInit ==
    /\ \E period \in RsiPeriods, period_duration \in RsiPeriodDurations :
         rsi = RsiNew(period, period_duration)
    /\ rsi_pre = rsi
    /\ rsi_op = "new"
    /\ rsi_in = None
    /\ rsi_out = None
    /\ rsi_calls = 0
    /\ DetIdle
    /\ WinIdle
    /\ EmaIdle
    /\ CtorIdle
    /\ RepIdle

RsiNextCall ==
    /\ rsi_calls < MaxRsiCalls
    /\ \E timestamp \in RsiTimestamps, value \in RsiValues :
         LET r == RsiNext(rsi, timestamp, value)
         IN  /\ rsi' = r.st
             /\ rsi_out' = Some(r.out)
             /\ rsi_in' = << timestamp, value >>
    /\ rsi_pre' = rsi
    /\ rsi_op' = "next"
    /\ rsi_calls' = rsi_calls + 1
    /\ UNCHANGED << det_vars, win_vars, ema_vars, ctor_vars, rep_vars >>

RsiResetCall ==
    /\ rsi_calls < MaxRsiCalls
    /\ rsi_op = "next"
    /\ rsi' = RsiReset(rsi)
    /\ rsi_pre' = rsi
    /\ rsi_op' = "reset"
    /\ rsi_in' = None
    /\ rsi_calls' = rsi_calls + 1
    /\ UNCHANGED << rsi_out, det_vars, win_vars, ema_vars, ctor_vars, rep_vars >>

RsiSpecNext == RsiNextCall \/ RsiResetCall

SpecRsi == RsiInit /\ [][RsiSpecNext]_vars

\* ------------------------------------------------------------------------
\* Specification of the constructors: the arguments are drawn, then one of
\* the constructors is called with them
\* ------------------------------------------------------------------------
\* none, half a second, a second, a second and a half, and one duration per
\* bucketing mode
CtorDurations ==
    { 0, 1, Secs(1), Secs(1) + 1, Secs(SecondModeLimitSecs), Secs(MinuteModeLimitSecs) }
CtorPeriods == { 0, 1, 3 }

CtorInit ==
    /\ ctor_args \in [ duration : CtorDurations, period : CtorPeriods ]
    /\ ctor_op = "none"
    /\ ctor_result = None
    /\ DetIdle
    /\ WinIdle
    /\ EmaIdle
    /\ RsiIdle
    /\ RepIdle

\* what every constructor call does with its result
Constructed(op, result) ==
    /\ ctor_op = "none"
    /\ ctor_op' = op
    /\ ctor_result' = result
    /\ UNCHANGED << ctor_args, det_vars, win_vars, ema_vars, rsi_vars, rep_vars >>

SmaNewCall == Constructed("SMA", SmaNewResult(ctor_args.duration))
SdNewCall == Constructed("SD", SdNewResult(ctor_args.duration))
MaxNewCall == Constructed("MAX", MaxNewResult(ctor_args.duration))
MinNewCall == Constructed("MIN", MinNewResult(ctor_args.duration))
MddNewCall == Constructed("MDD", MddNewResult(ctor_args.duration))
MduNewCall == Constructed("MDU", MduNewResult(ctor_args.duration))
BbNewCall == Constructed("BB", BbNewResult(ctor_args.duration, BbMultiplier))
EmaNewCall == Constructed("EMA", EmaNewResult(ctor_args.period, ctor_args.duration))
RsiNewCall == Constructed("RSI", RsiNewResult(ctor_args.period, ctor_args.duration))
DetNewCall == Constructed("DET", DetNewResult(ctor_args.duration))

CtorNext ==
    \/ SmaNewCall \/ SdNewCall \/ MaxNewCall \/ MinNewCall \/ MddNewCall
    \/ MduNewCall \/ BbNewCall \/ EmaNewCall \/ RsiNewCall \/ DetNewCall

SpecCtor == CtorInit /\ [][CtorNext]_vars

\* ------------------------------------------------------------------------
\* Specification of the window indicators with long durations: one
\* indicator of any of the seven kinds, built with a duration up to and past
\* the limits of chrono, then fed until a call does not return
\* ------------------------------------------------------------------------
\* a day, the longest duration that can be subtracted from the epoch and the
\* next one, the longest chrono::Duration and the next one
BigDurations ==
    { Secs(MinuteModeLimitSecs), Secs(-DateTimeMinSecs), Secs(-DateTimeMinSecs) + 1,
      Secs(ChronoDurationMaxSecs), Secs(ChronoDurationMaxSecs) + 1 }
BigSteps == { 0, 1, Secs(1) }
BigTimestamps ==
    IF win_in = None THEN { 0 } ELSE { Time(win_in) + s : s \in BigSteps }
BigValues == { F(1) }

BigInit ==
    /\ \E kind \in Kinds, duration \in BigDurations : ind = New(kind, duration)
    /\ win_pre = ind
    /\ win_op = "new"
    /\ win_in = None
    /\ win_rep = FALSE
    /\ win_out = None
    /\ win_fed = << >>
    /\ win_calls = 0
    /\ DetIdle
    /\ EmaIdle
    /\ ExtIdle

\* a next call that panicked
Panicked(timestamp, value) ==
    /\ win_calls < MaxWinCalls
    /\ win_in' = << timestamp, value >>
    /\ win_pre' = ind
    /\ win_op' = "panic"
    /\ win_calls' = win_calls + 1
    /\ UNCHANGED << ind, win_rep, win_out, win_fed, det_vars, ema_vars, ext_vars >>

\* a next call: it panics, or returns r
Returned(panics, r, timestamp, value) ==
    /\ win_op # "panic"
    /\ IF panics THEN Panicked(timestamp, value) ELSE Fed(r, timestamp, value)

SmaNextBig ==
    /\ ind.kind = "SMA"
    /\ \E timestamp \in BigTimestamps, value \in BigValues :
         Returned(SmaNextPanics(ind, timestamp), SmaNext(ind, timestamp, value),
                  timestamp, value)
SdNextBig ==
    /\ ind.kind = "SD"
    /\ \E timestamp \in BigTimestamps, value \in BigValues :
         Returned(SdNextPanics(ind, timestamp), SdNext(ind, timestamp, value),
                  timestamp, value)
MaxNextBig ==
    /\ ind.kind = "MAX"
    /\ \E timestamp \in BigTimestamps, value \in BigValues :
         Returned(MaxNextPanics(ind, timestamp), MaxNext(ind, timestamp, value),
                  timestamp, value)
MinNextBig ==
    /\ ind.kind = "MIN"
    /\ \E timestamp \in BigTimestamps, value \in BigValues :
         Returned(MinNextPanics(ind, timestamp), MinNext(ind, timestamp, value),
                  timestamp, value)
MddNextBig ==
    /\ ind.kind = "MDD"
    /\ \E timestamp \in BigTimestamps, value \in BigValues :
         Returned(MddNextPanics(ind, timestamp), MddNext(ind, timestamp, value),
                  timestamp, value)
MduNextBig ==
    /\ ind.kind = "MDU"
    /\ \E timestamp \in BigTimestamps, value \in BigValues :
         Returned(MduNextPanics(ind, timestamp), MduNext(ind, timestamp, value),
                  timestamp, value)
BbNextBig ==
    /\ ind.kind = "BB"
    /\ \E timestamp \in BigTimestamps, value \in BigValues :
         Returned(BbNextPanics(ind, timestamp), BbNext(ind, timestamp, value),
                  timestamp, value)

BigNext ==
    \/ SmaNextBig \/ SdNextBig \/ MaxNextBig \/ MinNextBig
    \/ MddNextBig \/ MduNextBig \/ BbNextBig

SpecBig == BigInit /\ [][BigNext]_vars

\* ------------------------------------------------------------------------
\* Specification of the drawdown and drawup indicators with values on both
\* sides of zero
\* ------------------------------------------------------------------------
DdKinds == { "MDD", "MDU" }
DdValues == { F(-1), F(0), F(1) }

DdInit ==
    /\ \E kind \in DdKinds, duration \in WinDurations : ind = New(kind, duration)
    /\ win_pre = ind
    /\ win_op = "new"
    /\ win_in = None
    /\ win_rep = FALSE
    /\ win_out = None
    /\ win_fed = << >>
    /\ win_calls = 0
    /\ DetIdle
    /\ EmaIdle
    /\ ExtIdle

MddNextSigned ==
    /\ ind.kind = "MDD"
    /\ \E timestamp \in WinTimestamps, value \in DdValues :
         Fed(MddNext(ind, timestamp, value), timestamp, value)
MduNextSigned ==
    /\ ind.kind = "MDU"
    /\ \E timestamp \in WinTimestamps, value \in DdValues :
         Fed(MduNext(ind, timestamp, value), timestamp, value)

DdNext == MddNextSigned \/ MduNextSigned

SpecDd == DdInit /\ [][DdNext]_vars


\* ------------------------------------------------------------------------
\* Specification of a minute-by-minute replay: a detector of a daily
\* duration is given the time T, then T + 1 min, T + 2 min, ... as in
\* test_full_trading_day_with_minutely_updates
\* ------------------------------------------------------------------------
Minutes(n) == Secs(60 * n)

ReplayDurations == { Secs(MinuteModeLimitSecs), Secs(MinuteModeLimitSecs) + 1 }
\* T: before the epoch, the epoch, 09:30 of the first day
ReplayStarts == { -1, 0, Minutes(570) }

ReplayInit ==
    /\ det_duration \in ReplayDurations
    /\ det = DetNew(det_duration)
    /\ det_pre = det
    /\ det_op = "new"
    /\ det_arg = None
    /\ det_prev_arg = None
    /\ det_ret = FALSE
    /\ det_calls = 0
    /\ rep_start \in ReplayStarts
    /\ rep_minute = 0
    /\ rep_opened = << >>
    /\ rep_duration = det_duration
    /\ WinIdle
    /\ EmaIdle
    /\ RsiIdle
    /\ CtorIdle

\* one call of should_replace of the replay, at minute after T
ReplayCall(minute) ==
    LET timestamp == rep_start + Minutes(minute)
        r == DetShouldReplace(det, timestamp)
    IN  /\ det' = r.det
        /\ det_ret' = r.ret
        /\ det_arg' = Some(timestamp)
        /\ det_prev_arg' = det_arg
        /\ det_pre' = det
        /\ det_op' = "should_replace"
        /\ det_calls' = det_calls + 1
        /\ rep_minute' = minute
        /\ rep_opened' = IF r.ret THEN rep_opened ELSE Append(rep_opened, timestamp)
        /\ UNCHANGED << det_duration, rep_start, rep_duration,
                        win_vars, ema_vars, rsi_vars, ctor_vars >>

\* the sample at T
ReplayOpen ==
    /\ det_op = "new"
    /\ ReplayCall(0)

\* the sample of the next minute
ReplayMinute ==
    /\ det_op = "should_replace"
    /\ rep_minute < MaxReplayMinutes
    /\ ReplayCall(rep_minute + 1)

ReplayNext == ReplayOpen \/ ReplayMinute

SpecReplay == ReplayInit /\ [][ReplayNext]_vars

\* ------------------------------------------------------------------------
\* Specification of every component: a detector, a window indicator, a
\* smoother or an oscillator is built, then fed and reset
\* ------------------------------------------------------------------------
AllInit == DetInit \/ WinInit \/ EmaInit \/ RsiInit

AllNext ==
    \/ det_op # "idle" /\ DetNext
    \/ win_op # "idle" /\ WinNext
    \/ ema_op # "idle" /\ EmaSpecNext
    \/ rsi_op # "idle" /\ RsiSpecNext

SpecAll == AllInit /\ [][AllNext]_vars

\* ------------------------------------------------------------------------
\* Properties of the detector
\* ------------------------------------------------------------------------
IsDaily == det.frequency.kind = "DailyOHLC"
IsIntraday == det.frequency.kind = "Intraday"
BucketWidthSecs == AsSecs(det.frequency.bucket)
Called == det_op = "should_replace"

C2_DailyGap ==
    (Called /\ IsDaily) =>
        LET ts == det_arg[1]
            G == 12240 * TicksPerSec
        IN  /\ det_pre.last_timestamp = None => ~det_ret
            /\ det_pre.last_timestamp # None =>
                  LET T == det_pre.last_timestamp[1]
                  IN  det_ret <=> (T < ts /\ ts < T + G)
            /\ ~det_ret => det.last_timestamp = Some(ts)

\* a call exactly G after the slot start opened a new slot, after a call
\* inside the gap had replaced
C2_Witness ==
    /\ Called /\ IsDaily
    /\ det_pre.last_timestamp # None
    /\ det_arg[1] = det_pre.last_timestamp[1] + 12240 * TicksPerSec
    /\ det_prev_arg # None /\ det_prev_arg[1] > det_pre.last_timestamp[1]
    /\ ~det_ret

\* floor(a / b) for b > 0
FloorDiv(a, b) == a \div b

\* C3: in second/minute bucket mode, for every timestamp, those before the
\* epoch included, should_replace(ts) returns true iff
\* floor(ts_seconds / width) = floor(prev_ts_seconds / width) for the
\* preceding call since construction or reset, and the stored key is the
\* new key after every call.
C3_BucketFloor ==
    (Called /\ IsIntraday) =>
        LET key == FloorDiv(Timestamp(det_arg[1]), BucketWidthSecs)
        IN  /\ det.last_minute_bucket = key
            /\ det_prev_arg # None =>
                  (det_ret <=>
                     key = FloorDiv(Timestamp(det_prev_arg[1]), BucketWidthSecs))

\* ------------------------------------------------------------------------
\* Properties of the window indicators
\* ------------------------------------------------------------------------
Fedd == win_op = "next"

\* the timestamps fed since construction or reset never decrease
NonDecreasing(fed) ==
    \A i \in 1 .. Len(fed) - 1 : fed[i].time <= fed[i + 1].time

\* C4: for every window indicator, every duration D and non-decreasing
\* timestamps, after next(t, v) no entry of the window is more than D older
\* than t.
C4_WindowWithinDuration ==
    (Fedd /\ NonDecreasing(win_fed)) =>
        \A i \in 1 .. Len(ind.window) :
            Time(win_in) - Time(ind.window[i]) <= ind.duration

\* the indicator's own boundary: is an entry of this time evicted at t
Stale(kind, time, current_time, duration) ==
    IF kind \in { "SMA", "SD", "MAX", "BB" }
    THEN time <= current_time - duration
    ELSE time < current_time - duration

RECURSIVE Evicted(_, _, _, _)
Evicted(w, kind, current_time, duration) ==
    IF w # << >> /\ Stale(kind, Time(w[1]), current_time, duration)
    THEN Evicted(Tail(w), kind, current_time, duration)
    ELSE w

\* C5: in every window indicator, next evicts the stale entries on every
\* call, before the replace/append decision is applied: the window after
\* the call is the evicted window, less its last entry when should_replace
\* returned true, plus the new sample.
C5_EvictBeforeReplace ==
    Fedd =>
        LET ev == Evicted(win_pre.window, ind.kind, Time(win_in), ind.duration)
            kept == IF win_rep /\ ev # << >> THEN PopBack(ev) ELSE ev
        IN  ind.window = Append(kept, win_in)

\* the samples that end a slot (the next call, if any, opened a new slot)
\* and whose time lies in (t - D, t]
SlotEnds(fed, t, D) ==
    { i \in 1 .. Len(fed) :
        /\ (i = Len(fed) \/ ~fed[i + 1].rep)
        /\ fed[i].time > t - D /\ fed[i].time <= t }

RECURSIVE SumOver(_, _)
SumOver(fed, I) ==
    IF I = {} THEN F(0)
    ELSE LET i == CHOOSE j \in I : TRUE
         IN  FAdd(fed[i].value, SumOver(fed, I \ {i}))

SlotMean(fed, t, D) ==
    FDiv(SumOver(fed, SlotEnds(fed, t, D)), F(Cardinality(SlotEnds(fed, t, D))))

\* the values returned by a SimpleMovingAverage fed the i-th and later
\* samples of inputs
RECURSIVE SmaRun(_, _, _)
SmaRun(s, inputs, i) ==
    IF i > Len(inputs) THEN << >>
    ELSE LET r == SmaNext(s, inputs[i][1], inputs[i][2])
         IN  << r.out >> \o SmaRun(r.st, inputs, i + 1)

\* test_next of simple_moving_average.rs: D = 4 s, one sample per second
ScenarioAValues == << 4, 5, 6, 6, 6, 6, 2 >>
ScenarioAInputs(t0) == [ i \in 1 .. 7 |-> << t0 + Secs(i - 1), F(ScenarioAValues[i]) >> ]
ScenarioAOutputs ==
    << F(4), Ratio(9, 2), F(5), Ratio(21, 4), Ratio(23, 4), F(6), F(5) >>

\* C6: for non-decreasing timestamps SimpleMovingAverage.next(t, v) returns
\* the mean of the last value of each slot whose time lies in (t - D, t];
\* with D = 4 s and one sample per second, the values 4, 5, 6, 6, 6, 6, 2
\* give 4, 4.5, 5, 5.25, 5.75, 6, 5.
C6_SmaMean ==
    /\ (Fedd /\ ind.kind = "SMA" /\ NonDecreasing(win_fed)) =>
          win_out = SlotMean(win_fed, Time(win_in), ind.duration)
    /\ \A t0 \in { 0, 1, Secs(60) - 1 } :
          SmaRun(SmaNew(Secs(4)), ScenarioAInputs(t0), 1) = ScenarioAOutputs

\* a SimpleMovingAverage whose second sample replaced the first and whose
\* third, later by less than D, opened a new slot: it returned the mean
\* of the second and third values, which differ
C6_Witness ==
    /\ Fedd /\ ind.kind = "SMA" /\ NonDecreasing(win_fed)
    /\ Len(win_fed) = 3 /\ win_fed[2].rep /\ ~win_fed[3].rep
    /\ Len(ind.window) = 2
    /\ win_fed[2].value # win_fed[3].value
    /\ win_fed[1].value # win_fed[2].value

\* ------------------------------------------------------------------------
\* Properties of the smoother
\* ------------------------------------------------------------------------
EmaFed == ema_op = "next"
\* the last call found the smoother initialized
Initialized == EmaFed /\ ~ema_pre.is_new

\* value blended into estimate with weight weight
Blend(weight, value, estimate) ==
    FAdd(FMul(weight, value), FMul(FSub(F(1), weight), estimate))

\* the values returned by a smoother fed the i-th and later samples of inputs
RECURSIVE EmaRun(_, _, _)
EmaRun(s, inputs, i) ==
    IF i > Len(inputs) THEN << >>
    ELSE LET r == EmaNext(s, inputs[i][1], inputs[i][2])
         IN  << r.out >> \o EmaRun(r.st, inputs, i + 1)

\* C7: when every sample after the first comes exactly one period P after
\* the one before, next returns k * value + (1 - k) * estimate with
\* k = 2 / (N + 1) at every step; N = 3, P = 1 day: 2, 5, 1 give 2, 3.5, 2.25.
C7_FixedCadence ==
    /\ (Initialized /\ ema_cadence) =>
          ema_out = Blend(Ratio(2, ema.period + 1), Value(ema_in), ema_pre.current)
    /\ EmaRun(EmaNew(3, Secs(86400)),
              << << 0, F(2) >>, << Secs(86400), F(5) >>, << 2 * Secs(86400), F(1) >> >>, 1)
         = << F(2), Ratio(7, 2), Ratio(9, 4) >>

\* C8: after a history whose timestamps increase by a whole second or more,
\* feeding (t, v) and then more samples at the same t leaves the smoother
\* as feeding only the last of them would; a replacement value other than
\* the value replaced changes the estimate when the last decay is not 0.
C8_ReplacementUndoRedo ==
    (EmaFed /\ ema_regular /\ ema_run >= 2) =>
        /\ ema_out = EmaNext(ema_base, Time(ema_in), Value(ema_in)).out
        /\ ema = EmaNext(ema_base, Time(ema_in), Value(ema_in)).st
        /\ (Value(ema_in) # ema_pre.last_value /\ ema.last_adjusted_k # F(0))
              => ema_out # ema_pre.current

\* three samples at one timestamp, a whole period after the first sample of
\* the smoother, with a decay strictly between 0 and 1, the second and the
\* third each with a value other than the one before
C8_Witness ==
    /\ EmaFed /\ ema_regular /\ ema_run = 3
    /\ ~ema_base.is_new
    /\ FGt(ema.last_adjusted_k, F(0)) /\ FLt(ema.last_adjusted_k, F(1))
    /\ Value(ema_in) # ema_pre.last_value
    /\ ema_pre.current # ema_base.current

\* (1 - k)^(elapsed / P) of the elapsed time and the period as they are,
\* sub-second parts included: Some(power) when it is rational, None when it
\* is irrational (1 - k is not 0 and the exponent is not a whole number)
TrueDecay(s, elapsed) ==
    LET base == FSub(F(1), s.k)
    IN  IF base = F(0) THEN Some(F(0))
        ELSE IF elapsed % s.period_duration = 0
        THEN Some(FPowInt(base, elapsed \div s.period_duration))
        ELSE None

\* C9: on an initialized smoother, a next call with a timestamp later than
\* last_timestamp by any amount, less than a second included, blends the
\* value with adjusted_k = 1 - (1 - k)^(elapsed / P) and stores
\* last_timestamp = timestamp, last_value = value, last_decay = adjusted_k.
\* (An irrational adjusted_k is not the stored decay, which is rational.)
C9_LaterTimestampBlends ==
    (Initialized /\ Time(ema_in) > ema_pre.last_timestamp[1]) =>
        LET decay == TrueDecay(ema_pre, Time(ema_in) - ema_pre.last_timestamp[1])
        IN  /\ ema.last_timestamp = Some(Time(ema_in))
            /\ ema.last_value = Value(ema_in)
            /\ decay # None
            /\ ema.last_adjusted_k = FSub(F(1), decay[1])
            /\ ema_out = Blend(FSub(F(1), decay[1]), Value(ema_in), ema_pre.current)

\* C10: on an initialized smoother, a next call with a timestamp earlier
\* than last_timestamp changes nothing and returns the estimate as it was.
C10_EarlierTimestampNoOp ==
    (Initialized /\ Time(ema_in) < ema_pre.last_timestamp[1]) =>
        /\ ema_out = ema_pre.current
        /\ ema = ema_pre


\* ------------------------------------------------------------------------
\* Properties of the oscillator
\* ------------------------------------------------------------------------
RsiFed == rsi_op = "next"
\* the smoothed averages after the last call
AvgUp == rsi.up_ema_indicator.current
AvgDown == rsi.down_ema_indicator.current

\* the values returned by an oscillator fed the i-th and later samples of
\* inputs
RECURSIVE RsiRun(_, _, _)
RsiRun(s, inputs, i) ==
    IF i > Len(inputs) THEN << >>
    ELSE LET r == RsiNext(s, inputs[i][1], inputs[i][2])
         IN  << r.out >> \o RsiRun(r.st, inputs, i + 1)

\* test_daily_rsi of relative_strength_index.rs: N = 3, P = 1 day, the
\* values 10, 10.5, 10 a day apart
ScenarioCInputs ==
    << << 0, F(10) >>, << Secs(86400), Ratio(21, 2) >>, << 2 * Secs(86400), F(10) >> >>
ScenarioCOutputs == << F(50), F(100), Ratio(100, 3) >>

\* C11: next returns 50 whenever both smoothed averages are 0 (so on the
\* first sample after construction or reset), 100 whenever the smoothed loss
\* is 0 and the smoothed gain is positive, and 100 - 100 / (1 + avg_up /
\* avg_down) otherwise.
C11_RsiValue ==
    /\ RsiFed =>
         /\ rsi_pre.prev_timestamp = None => rsi_out = Some(F(50))
         /\ rsi_out = Some(IF AvgUp = F(0) /\ AvgDown = F(0) THEN F(50)
                           ELSE IF AvgDown = F(0) /\ FGt(AvgUp, F(0)) THEN F(100)
                           ELSE FSub(F(100), FDiv(F(100),
                                     FAdd(F(1), FDiv(AvgUp, AvgDown)))))
    /\ RsiRun(RsiNew(3, Secs(86400)), ScenarioCInputs, 1) = ScenarioCOutputs

\* C12: for every sequence of next calls, whatever the values and the order
\* of the timestamps, both smoothed averages are at least 0 and the value
\* returned lies in [0, 100].
C12_RsiBounded ==
    RsiFed =>
      /\ FLe(F(0), AvgUp)
      /\ FLe(F(0), AvgDown)
      /\ FLe(F(0), rsi_out[1])
      /\ FLe(rsi_out[1], F(100))

\* C13: a next call whose timestamp equals the stored previous timestamp
\* leaves prev_val and prev_timestamp as they were.
C13_ReplacementKeepsPrev ==
    (RsiFed /\ rsi_pre.prev_timestamp = Some(Time(rsi_in))) =>
      /\ rsi.prev_val = rsi_pre.prev_val
      /\ rsi.prev_timestamp = rsi_pre.prev_timestamp


\* ------------------------------------------------------------------------
\* Properties of the constructors
\* ------------------------------------------------------------------------
Indicators == { "SMA", "SD", "MAX", "MIN", "MDD", "MDU", "BB", "EMA", "RSI" }
WithPeriod == { "EMA", "RSI" }

\* C14: every indicator constructor returns InvalidParameter if and only if
\* the duration is zero or, for EMA and RSI, the period count is zero; every
\* other duration, those under a second included, and every other period
\* count is accepted, and the instance holds them.
C14_InvalidParameterIffZero ==
    ctor_op \in Indicators =>
      LET zero == \/ ctor_args.duration = 0
                  \/ ctor_op \in WithPeriod /\ ctor_args.period = 0
      IN  /\ zero => ctor_result = Err(InvalidParameter)
          /\ ~zero =>
               /\ ctor_result.ok
               /\ ctor_op \in WithPeriod =>
                    /\ ctor_result.value.period = ctor_args.period
                    /\ ctor_result.value.period_duration = ctor_args.duration
               /\ ctor_op \notin WithPeriod =>
                    ctor_result.value.duration = ctor_args.duration

\* a constructor was given a duration of half a second and accepted it
C14_Witness ==
    /\ ctor_op \in Indicators
    /\ ctor_args.duration = 1
    /\ ctor_result.ok

\* C15: constructing the AdaptiveTimeDetector with D = 0 fails with
\* InvalidParameter; with D > 0 it succeeds and the mode is selected.
C15_DetectorRejectsZero ==
    ctor_op = "DET" =>
      /\ ctor_args.duration = 0 => ctor_result = Err(InvalidParameter)
      /\ ctor_args.duration > 0 =>
           /\ ctor_result.ok
           /\ ctor_result.value.frequency \in
                { Intraday(Secs(1)), Intraday(Secs(60)), DailyOHLC }


\* ------------------------------------------------------------------------
\* Properties of next as a call
\* ------------------------------------------------------------------------
\* C16: on every instance that new accepted, however long its duration, and
\* for every timestamp, next returns a value: the conversion of the duration
\* does not fail and timestamp - duration does not overflow.
C16_NextInfallible ==
    win_op # "panic"

\* ------------------------------------------------------------------------
\* Properties of the drawdown and drawup scans
\* ------------------------------------------------------------------------
\* the ratio of a scan step, 0 when the running extreme is 0
StepRatio(difference, extreme) ==
    IF extreme = F(0) THEN F(0) ELSE FDiv(difference, extreme)

\* the scans with that ratio: the greatest ratio from position i on
RECURSIVE DrawdownFrom(_, _, _, _)
DrawdownFrom(w, i, peak, most) ==
    IF i > Len(w) THEN most
    ELSE LET value == Value(w[i])
             peak1 == IF FGt(value, peak) THEN value ELSE peak
             ratio == StepRatio(FSub(peak1, value), peak1)
         IN  DrawdownFrom(w, i + 1, peak1, IF FGt(ratio, most) THEN ratio ELSE most)

RECURSIVE DrawupFrom(_, _, _, _)
DrawupFrom(w, i, trough, most) ==
    IF i > Len(w) THEN most
    ELSE LET value == Value(w[i])
             trough1 == IF FLt(value, trough) THEN value ELSE trough
             ratio == StepRatio(FSub(value, trough1), trough1)
         IN  DrawupFrom(w, i + 1, trough1, IF FGt(ratio, most) THEN ratio ELSE most)

\* C19: in MaxDrawdown and MaxDrawup a scan step whose running peak (trough)
\* is zero contributes 0 to the running extreme ratio whatever its value, so
\* next returns neither NaN nor an infinite value for finite inputs.
C19_ZeroExtremeContributesZero ==
    Fedd =>
      /\ ind.kind = "MDD" =>
           win_out = FMul(F(100), DrawdownFrom(ind.window, 1, F64_NEG_INFINITY, F(0)))
      /\ ind.kind = "MDU" =>
           win_out = FMul(F(100), DrawupFrom(ind.window, 1, F64_INFINITY, F(0)))
      /\ ind.kind \in DdKinds => IsFinite(win_out)


\* ------------------------------------------------------------------------
\* Properties of reset
\* ------------------------------------------------------------------------
\* C17: reset returns an instance to its state after construction with the
\* same parameters, whatever was fed before: the instance after reset is the
\* one new gives, so every sequence of next calls returns the same from both,
\* and the duration, the period and the mode are as they were.
C17_ResetIsNew ==
    /\ det_op = "reset" =>
         /\ det = DetNew(det_duration)
         /\ det.frequency = det_pre.frequency
    /\ win_op = "reset" =>
         /\ ind = New(win_pre.kind, win_pre.duration)
         /\ ind.detector.frequency = win_pre.detector.frequency
    /\ ema_op = "reset" =>
         ema = EmaNew(ema_pre.period, ema_pre.period_duration)
    /\ rsi_op = "reset" =>
         rsi = RsiNew(rsi_pre.period, rsi_pre.period_duration)

\* an indicator that held two entries was reset
C17_Witness ==
    /\ win_op = "reset"
    /\ Len(win_pre.window) = 2
    /\ ind.window = << >>


C20_TwoSlotsPerSession ==
    (det_op = "should_replace" /\ rep_duration # 0
        /\ 204 <= rep_minute /\ rep_minute < 408) =>
        /\ det.frequency = DailyOHLC
        /\ rep_opened = << rep_start, rep_start + Minutes(204) >>

\* the replay has reached the last minute of the range, T + 407 min
C20_Witness ==
    /\ det_op = "should_replace"
    /\ rep_duration # 0
    /\ rep_minute = 407
    /\ Len(rep_opened) = 2

\* ------------------------------------------------------------------------
\* Properties of the detector over sequences of calls
\* ------------------------------------------------------------------------
\* C21: across any sequence of should_replace and reset calls the mode is
\* the one new(D) selected and is_detected is true; reset clears only the
\* stored bucket key and slot start, so the first should_replace after a
\* reset returns false for every timestamp.
C21_ModeKeptAcrossReset ==
    /\ det.frequency = DetNew(det_duration).frequency
    /\ IsDetected(det)
    /\ det_op = "reset" =>
         /\ det = [det_pre EXCEPT !.last_minute_bucket = I64_MIN,
                                  !.last_timestamp = None]
         /\ \A timestamp \in DetTimestamps :
              ~DetShouldReplace(det, timestamp).ret
    /\ (Called /\ det_prev_arg = None) => ~det_ret

\* should_replace, reset, then should_replace again on the cleared detector
C21_Witness ==
    /\ Called
    /\ det_prev_arg = None
    /\ det_calls = 3
    /\ det_pre = DetNew(det_duration)
    /\ det_arg[1] \in DetStarts

\* ------------------------------------------------------------------------
\* Properties of the window under bucketing
\* ------------------------------------------------------------------------
\* the indicators whose next evicts on every call
AlwaysEvicting == { "SMA", "SD", "MAX", "MDD", "MDU" }

\* the timestamps fed since construction or reset are at or after the epoch
SinceEpoch(fed) == \A i \in 1 .. Len(fed) : fed[i].time >= 0

\* the bucket key floor(ts_seconds / width) of a window entry
KeyOf(entry, width) == FloorDiv(Timestamp(Time(entry)), width)

Entries(w) == { w[i] : i \in 1 .. Len(w) }

\* the entries of the window before the call that the call did not replace
Unreplaced(w, replaced) ==
    IF replaced /\ w # << >> THEN Entries(PopBack(w)) ELSE Entries(w)

InclusiveBoundary == { "SMA", "SD", "MAX", "BB" }
StrictBoundary == { "MDD", "MDU", "MIN" }

\* C23: after next(t, v) with non-decreasing timestamps, SimpleMovingAverage,
\* StandardDeviation, Maximum and BollingerBands hold no older entry with
\* ts <= t - D (an entry of exactly t - D has been evicted), whereas
\* MaxDrawdown, MaxDrawup and Minimum hold no older entry with ts < t - D
\* and still hold an entry of exactly t - D.
C23_OwnBoundary ==
    (Fedd /\ NonDecreasing(win_fed)) =>
        LET t == Time(win_in)
            D == ind.duration
            older == Entries(PopBack(ind.window))
        IN  /\ ind.kind \in InclusiveBoundary =>
                 \A e \in older : Time(e) > t - D
            /\ ind.kind \in StrictBoundary =>
                 /\ \A e \in older : Time(e) >= t - D
                 /\ \A e \in Unreplaced(win_pre.window, win_rep) :
                      Time(e) = t - D => e \in older

\* C24: in a window indicator's next, when should_replace is true and the
\* window is non-empty after eviction, the new sample takes the place of the
\* most recent entry, so the length after the call is the post-eviction
\* length; otherwise the length is the post-eviction length plus one; the
\* entries other than the last are those left by the eviction.
C24_ReplaceKeepsLength ==
    Fedd =>
        LET ev == Evicted(win_pre.window, ind.kind, Time(win_in), ind.duration)
        IN  /\ Back(ind.window) = win_in
            /\ (win_rep /\ ev # << >>) =>
                  /\ Len(ind.window) = Len(ev)
                  /\ PopBack(ind.window) = PopBack(ev)
            /\ ~(win_rep /\ ev # << >>) =>
                  /\ Len(ind.window) = Len(ev) + 1
                  /\ PopBack(ind.window) = ev

\* ------------------------------------------------------------------------
\* Properties of the daily-gap mode
\* ------------------------------------------------------------------------
\* the timestamp that opened the slot the call found
SlotStart == det_pre.last_timestamp

\* C25: in daily-gap mode a should_replace call that returns true leaves
\* the stored slot start unchanged, so the gap is measured from the
\* timestamp that opened the slot: a sample at least G after it opens a new
\* slot, however soon it comes after the previous sample.
C25_GapFromSlotStart ==
    (Called /\ IsDaily) =>
        /\ det_ret => det.last_timestamp = SlotStart
        /\ (SlotStart # None /\ det_arg[1] >= SlotStart[1] + Secs(MinGapSecs)) =>
              /\ ~det_ret
              /\ det.last_timestamp = det_arg

\* a sample replaced, and the next one, less than G after it and exactly G
\* after the start of the slot, opened a new slot
C25_Witness ==
    /\ Called /\ IsDaily
    /\ SlotStart # None
    /\ det_prev_arg # None
    /\ det_prev_arg[1] > SlotStart[1]
    /\ det_arg[1] - det_prev_arg[1] < Secs(MinGapSecs)
    /\ det_arg[1] - det_prev_arg[1] > 0
    /\ det_arg[1] = SlotStart[1] + Secs(MinGapSecs)
    /\ ~det_ret
    /\ det.last_timestamp = det_arg

\* C26: in daily-gap mode with strictly increasing timestamps, a call that
\* opens a slot (returns false) is at least G = 12240 s after the timestamp
\* that opened the slot before it.
C26_OpeningsGapApart ==
    (/\ Called /\ IsDaily /\ ~det_ret
     /\ SlotStart # None
     /\ det_arg[1] > SlotStart[1]) =>
        det_arg[1] - SlotStart[1] >= 12240 * TicksPerSec

\* two slots have been opened one after the other by increasing timestamps,
\* with a replacing sample half a second after the first opening
C26_Witness ==
    /\ Called /\ IsDaily /\ ~det_ret
    /\ SlotStart # None
    /\ det_prev_arg # None
    /\ det_prev_arg[1] = SlotStart[1] + 1
    /\ det_arg[1] > det_prev_arg[1]

\* ------------------------------------------------------------------------
\* Properties of the smoother's first call and of its replacement call
\* ------------------------------------------------------------------------
\* C27: the first next(t, v) after construction or reset returns v and
\* leaves the smoother initialized with last_timestamp = t, last_value = v
\* and last decay 1, so a second sample at the same t with value v' returns
\* v'.
C27_FirstCallReturnsValue ==
    /\ (EmaFed /\ ema_pre.is_new) =>
          /\ ema_out = Value(ema_in)
          /\ ema = [ema_pre EXCEPT !.is_new = FALSE,
                                   !.current = Value(ema_in),
                                   !.last_timestamp = Some(Time(ema_in)),
                                   !.last_value = Value(ema_in),
                                   !.last_adjusted_k = F(1)]
          /\ \A value \in EmaValues :
                EmaNext(ema, Time(ema_in), value).out = value
    /\ (EmaFed /\ ema_run = 2 /\ ema_base.is_new) => ema_out = Value(ema_in)

\* after a reset, a first sample, then a sample of another value at the same
\* timestamp
C27_Witness ==
    /\ EmaFed
    /\ ema_run = 2
    /\ ema_base.is_new
    /\ ema_calls = 4
    /\ Value(ema_in) # ema_pre.last_value
    /\ ema_out = Value(ema_in)

\* C28: a replacement call (same timestamp) on an initialized smoother
\* changes only the estimate and last_value: last_timestamp and the last
\* decay are as before; with a last decay of 0 the estimate is as before too.
C28_ReplacementFrame ==
    /\ (EmaFed /\ ~ema_pre.is_new /\ ema_pre.last_timestamp = Some(Time(ema_in))) =>
          /\ ema = [ema_pre EXCEPT !.current = ema.current,
                                   !.last_value = Value(ema_in)]
          /\ ema_pre.last_adjusted_k = F(0) => ema.current = ema_pre.current
    /\ (ema_op # "idle" /\ ~ema.is_new) =>
          \A value \in EmaValues :
              LET zero == [ema EXCEPT !.last_adjusted_k = F(0)]
                  r == EmaNext(zero, ema.last_timestamp[1], value)
              IN  r.st = [zero EXCEPT !.last_value = value] /\ r.out = ema.current

\* a replacement with another value on a smoother whose last decay is
\* strictly between 0 and 1 has changed the estimate
C28_Witness ==
    /\ EmaFed
    /\ ~ema_pre.is_new
    /\ ema_pre.last_timestamp = Some(Time(ema_in))
    /\ FGt(ema_pre.last_adjusted_k, F(0)) /\ FLt(ema_pre.last_adjusted_k, F(1))
    /\ ema.current # ema_pre.current
    /\ ema.last_adjusted_k = ema_pre.last_adjusted_k

\* ------------------------------------------------------------------------
\* Properties of the oscillator's gain and loss
\* ------------------------------------------------------------------------
\* f64::round of a finite value: to the nearest whole number, halves away
\* from zero
FRound(a) ==
    IF a[1] >= 0 THEN F((2 * a[1] + a[2]) \div (2 * a[2]))
    ELSE F(-((2 * (-a[1]) + a[2]) \div (2 * a[2])))

\* the pair the claim gives for a price change over an elapsed time
ScaledGainLoss(price_change, elapsed, P) ==
    IF FGt(price_change, F(0))
    THEN << FMul(price_change, Ratio(elapsed, P)), F(0) >>
    ELSE << F(0), FMul(FNeg(price_change), Ratio(elapsed, P)) >>

\* C29: on a non-replacement update with a positive whole-second elapsed
\* time, the two smoothers are fed (price_change * elapsed / P, 0) when
\* price_change > 0 and (0, -price_change * elapsed / P) otherwise, with
\* price_change measured against the stored previous value; daily samples
\* 10.0, 10.5, 10.0 with N = 3 give 50, 100, 33 (rounded).
C29_GainLossScaled ==
    /\ (/\ RsiFed
        /\ rsi_pre.prev_timestamp # None
        /\ Time(rsi_in) - rsi_pre.prev_timestamp[1] > 0
        /\ (Time(rsi_in) - rsi_pre.prev_timestamp[1]) % TicksPerSec = 0) =>
          LET elapsed == Time(rsi_in) - rsi_pre.prev_timestamp[1]
              price_change == FSub(Value(rsi_in), rsi_pre.prev_val[1])
              fed == ScaledGainLoss(price_change, elapsed, rsi.period_duration)
          IN  /\ rsi.up_ema_indicator =
                    EmaNext(rsi_pre.up_ema_indicator, Time(rsi_in), fed[1]).st
              /\ rsi.down_ema_indicator =
                    EmaNext(rsi_pre.down_ema_indicator, Time(rsi_in), fed[2]).st
    /\ LET out == RsiRun(RsiNew(3, Secs(86400)), ScenarioCInputs, 1)
       IN  << FRound(out[1]), FRound(out[2]), FRound(out[3]) >>
             = << F(50), F(100), F(33) >>

\* ------------------------------------------------------------------------
\* Properties of the incremental accumulators
\* ------------------------------------------------------------------------
\* the sum of the values of the entries i .. Len(w) of a window
RECURSIVE WindowSum(_, _)
WindowSum(w, i) ==
    IF i > Len(w) THEN F(0) ELSE FAdd(Value(w[i]), WindowSum(w, i + 1))

\* the sum of the squares of the values of the entries i .. Len(w)
RECURSIVE WindowSumSq(_, _)
WindowSumSq(w, i) ==
    IF i > Len(w) THEN F(0)
    ELSE FAdd(FMul(Value(w[i]), Value(w[i])), WindowSumSq(w, i + 1))

\* C30: in SimpleMovingAverage and StandardDeviation, after every next or
\* reset, sum is the sum of the values in the window and (StandardDeviation)
\* sum_sq is the sum of their squares; StandardDeviation returns 0 whenever
\* the window holds a single entry.
C30_AccumulatorsMatchWindow ==
    /\ (win_op # "idle" /\ ind.kind \in { "SMA", "SD" }) =>
          ind.sum = WindowSum(ind.window, 1)
    /\ (win_op # "idle" /\ ind.kind = "SD") =>
          /\ ind.sum_sq = WindowSumSq(ind.window, 1)
          /\ (Fedd /\ Len(ind.window) = 1) => win_out = [sqrt |-> F(0)]

\* a StandardDeviation holding two entries of different values has evicted
\* one, replaced the other and returned 0
C30_Witness ==
    /\ Fedd
    /\ ind.kind = "SD"
    /\ Len(win_pre.window) = 2
    /\ Value(win_pre.window[1]) # Value(win_pre.window[2])
    /\ win_rep
    /\ Len(ind.window) = 1
    /\ win_out = [sqrt |-> F(0)]

\* ------------------------------------------------------------------------
\* Properties of the order and the content of the window
\* ------------------------------------------------------------------------
\* the entries of a window are non-decreasing by timestamp
Ordered(w) == \A i \in 1 .. Len(w) - 1 : Time(w[i]) <= Time(w[i + 1])

\* C31: for input with non-decreasing timestamps, the window of every
\* window indicator is non-decreasing by timestamp after every next call, in
\* every bucketing mode.
C31_WindowOrdered ==
    (Fedd /\ NonDecreasing(win_fed)) => Ordered(ind.window)

\* in daily-gap mode, a window of two entries of increasing timestamps whose
\* second entry has replaced another
C31_Witness ==
    /\ Fedd
    /\ NonDecreasing(win_fed)
    /\ ind.detector.frequency = DailyOHLC
    /\ win_rep
    /\ Len(ind.window) = 2
    /\ Time(ind.window[1]) < Time(ind.window[2])

\* the smallest of the values of a non-empty window
TrueMinimum(w) ==
    CHOOSE m \in { Value(e) : e \in Entries(w) } :
        \A e \in Entries(w) : FLe(m, Value(e))

\* C32: Minimum.next returns the minimum of the values in its window, for
\* every input sequence, the calls that skip the rescan because the new
\* value is below the cached minimum included: after every next the cached
\* min_value is the minimum over the window.
C32_MinimumIsTrueMinimum ==
    (Fedd /\ ind.kind = "MIN") =>
        /\ ind.min_value = TrueMinimum(ind.window)
        /\ win_out = TrueMinimum(ind.window)

\* a call took the place of, or evicted, an entry and skipped the rescan,
\* its value being below the cached minimum
C32_Witness ==
    /\ Fedd
    /\ ind.kind = "MIN"
    /\ win_pre.window # << >>
    /\ FLt(Value(win_in), win_pre.min_value)
    /\ Len(ind.window) <= Len(win_pre.window)
    /\ win_out = Value(win_in)

\* ------------------------------------------------------------------------
\* Properties of the oscillator's replacement
\* ------------------------------------------------------------------------
\* C33: for samples (t0, a), (t1, b), (t1, c) with t1 later than t0 by a
\* whole number of seconds, the value the third call returns is the value
\* returned for (t1, c) had the sequence been (t0, a), (t1, c) only.  Stated
\* from every state whose last sample is (t0, a).
C33_ReplacementFromOriginal ==
    (RsiFed /\ rsi.prev_timestamp = Some(Time(rsi_in))) =>
        \A seconds \in 1 .. 2, b \in RsiValues, c \in RsiValues :
            LET t1 == Time(rsi_in) + Secs(seconds)
            IN  RsiRun(rsi, << << t1, b >>, << t1, c >> >>, 1)[2]
                  = RsiRun(rsi, << << t1, c >> >>, 1)[1]

\* C34: after every next call with non-decreasing timestamps, the window of
\* BollingerBands holds exactly the entries of the window of its inner
\* StandardDeviation.
C34_BandsShareWindow ==
    (Fedd /\ ind.kind = "BB" /\ NonDecreasing(win_fed)) =>
        ind.window = ind.sd.window

\* C35: after every next(t, v) on any window indicator, for any input
\* sequence, the window is non-empty and its last entry is (t, v), so next
\* never computes its aggregate over an empty window.
C35_LastEntryIsSample ==
    Fedd =>
        /\ ind.window # << >>
        /\ Back(ind.window) = win_in
        /\ ind.kind = "BB" =>
              /\ ind.sd.window # << >>
              /\ Back(ind.sd.window) = win_in

\* a call has evicted the two entries the window held and left the sample
\* as the only entry
C35_Witness ==
    /\ Fedd
    /\ ~win_rep
    /\ Len(win_pre.window) = 2
    /\ ind.window = << win_in >>

\* ------------------------------------------------------------------------
\* SpecFill: one SimpleMovingAverage in a bucket mode, fed more samples than
\* its window can hold, at non-decreasing times from the epoch on
\* ------------------------------------------------------------------------
MaxFillCalls == 7

FillDurations == { Secs(1), Secs(1) + 1, Secs(2), Secs(300) }
FillStarts == { 0, 1 }
FillWidth == ind.detector.frequency.bucket
FillSteps == { 0, 1, FillWidth - 1, FillWidth }
FillTimestamps ==
    IF win_in = None THEN FillStarts ELSE { Time(win_in) + s : s \in FillSteps }
FillValues == { F(1) }

FillInit ==
    /\ \E duration \in FillDurations : ind = SmaNew(duration)
    /\ win_pre = ind
    /\ win_op = "new"
    /\ win_in = None
    /\ win_rep = FALSE
    /\ win_out = None
    /\ win_fed = << >>
    /\ win_calls = 0
    /\ DetIdle
    /\ EmaIdle
    /\ ExtIdle

SmaNextFill ==
    /\ win_calls < MaxFillCalls
    /\ \E timestamp \in FillTimestamps, value \in FillValues :
         LET r == SmaNext(ind, timestamp, value)
         IN  /\ ind' = r.st
             /\ win_rep' = r.rep
             /\ win_out' = r.out
             /\ win_in' = << timestamp, value >>
             /\ win_fed' = Append(win_fed, [time |-> timestamp, value |-> value,
                                            rep |-> r.rep])
             /\ win_pre' = ind
             /\ win_op' = "next"
             /\ win_calls' = win_calls + 1
             /\ UNCHANGED << det_vars, ema_vars, ext_vars >>

FillNext == SmaNextFill

SpecFill == FillInit /\ [][FillNext]_vars

\* the smallest whole number that is at least a / b, for b > 0
CeilDiv(a, b) == (a + b - 1) \div b

\* C36: with non-decreasing timestamps at or after the epoch, the window of a
\* SimpleMovingAverage of duration D in a bucket mode of width w never holds
\* more than ceil(D / w) + 1 entries after a next call, however many samples
\* were fed.
C36_WindowBounded ==
    (/\ Fedd
     /\ ind.kind = "SMA"
     /\ ind.detector.frequency.kind = "Intraday"
     /\ NonDecreasing(win_fed)
     /\ SinceEpoch(win_fed)) =>
        Len(ind.window) <= CeilDiv(ind.duration, ind.detector.frequency.bucket) + 1

\* more samples were fed to a five-minute average than the bound allows
\* entries, and the window holds exactly as many entries as the bound allows
C36_Witness ==
    /\ Fedd
    /\ ind.duration = Secs(300)
    /\ ind.kind = "SMA"
    /\ ind.detector.frequency.kind = "Intraday"
    /\ NonDecreasing(win_fed)
    /\ SinceEpoch(win_fed)
    /\ Len(win_fed) > CeilDiv(ind.duration, ind.detector.frequency.bucket) + 1
    /\ Len(ind.window) = CeilDiv(ind.duration, ind.detector.frequency.bucket) + 1

\* C37: for any sequence of next calls with non-decreasing timestamps,
\* repeated timestamps and steps of less than a second included, the
\* estimate after each call lies between the smallest and the largest value
\* fed since construction or the last reset.
C37_EstimateWithinFed ==
    (EmaFed /\ ema_ordered) =>
        /\ FLe(ema_lo, ema.current)
        /\ FLe(ema.current, ema_hi)
        /\ ema_out = ema.current

\* the last call came a positive whole number of seconds after the one
\* before it, which found the smoother initialized
WholeSecondStep ==
    /\ Initialized
    /\ ema_pre.last_timestamp # None
    /\ Time(ema_in) > ema_pre.last_timestamp[1]
    /\ (Time(ema_in) - ema_pre.last_timestamp[1]) % TicksPerSec = 0

\* the further gaps tried: one and two periods as the code counts them, one
\* and two seconds when the period is under a second
FurtherGaps ==
    LET seconds == IF AsSecs(ema.period_duration) = 0 THEN 1
                   ELSE AsSecs(ema.period_duration)
    IN  { Secs(seconds), Secs(2 * seconds) }

====
